---------------------------- MODULE Spec2Model ----------------------------
(***************************************************************************)
(* Lap time simulation engine (backend/engine): TrackData, VehicleParams,  *)
(* TireModel, AerodynamicsModel, PowertrainModel, GGVGenerator and         *)
(* QuasiSteadyStateSolver.                                                 *)
(*                                                                         *)
(* The C++ doubles are modelled in fixed point.  Units:                    *)
(*   coordinates          whole metres                                     *)
(*   s, ds, L, widths     centimetres            (LS per metre)            *)
(*   angles               1e-4 rad               (PI_U is pi)              *)
(*   curvature            1e-6 1/m                                         *)
(*   velocity             cm/s                   (VS per m/s)              *)
(*   acceleration         cm/s^2                 (AS per m/s^2)            *)
(*   force                decanewtons            (10 N)                    *)
(*   mass                 kilograms                                        *)
(*   time                 milliseconds                                     *)
(*   coefficients         hundredths (mu, Cl, Cd, ratios, efficiency)      *)
(* std::sqrt is the integer square root (rounded down) of the scaled       *)
(* argument; C++ division of doubles is integer division truncated         *)
(* toward zero.                                                            *)
(***************************************************************************)
EXTENDS Integers, Sequences, FiniteSets, TLC

VARIABLES
    \* TrackData
    points_, total_length_, preprocessed_,
    track_call,      \* the last call made on the track and its outcome
    hist_current,    \* history: a preprocess succeeded and no point was added since
    \* VehicleParams
    vehicle,
    vehicle_call,    \* the last call made with the vehicle and its outcome
    \* TireModel
    tire_call,
    \* GGVGenerator
    ggv,             \* the solver's generator (ggv_) and a generator of the caller
    ggv_call,
    \* QuasiSteadyStateSolver
    pc, max_iterations, tolerance, iter, prev_lap_time,
    v_corner_, v_accel_, v_brake_, v_optimal_,
    lap_time_, converged_, iterations_used_,
    solver_call,     \* the last call made on the solver and what it returned
    solve_log,       \* history of the running solve() call
    hist_lighter     \* history: the solve of the solver built before on the
                     \* same track for the vehicle of half the mass

trackVars   == <<points_, total_length_, preprocessed_, track_call, hist_current>>
vehicleVars == <<vehicle, vehicle_call>>
tireVars    == <<tire_call>>
ggvVars     == <<ggv, ggv_call>>
solverVars  == <<pc, max_iterations, tolerance, iter, prev_lap_time,
                 v_corner_, v_accel_, v_brake_, v_optimal_,
                 lap_time_, converged_, iterations_used_, solver_call,
                 solve_log, hist_lighter>>
vars == <<trackVars, vehicleVars, tireVars, ggvVars, solverVars>>

-----------------------------------------------------------------------------
(* Bounds of the model *)

\* the longest track built by addPoint calls
MaxPoints == 4
\* the largest max_iterations argument passed to solve()
MaxIter == 3

-----------------------------------------------------------------------------
(* Fixed-point arithmetic *)

LS == 10^2             \* s, ds, widths: units per metre
VS == 10^2             \* velocity: units per m/s
AS == 10^2             \* acceleration: units per m/s^2
\* pi in units of 1e-4 rad
PI_U == 31416

Abs(a) == IF a < 0 THEN -a ELSE a
Min(a, b) == IF a <= b THEN a ELSE b
Max(a, b) == IF a >= b THEN a ELSE b

\* division of doubles, truncated toward zero at the model's resolution
SDiv(a, b) == IF a >= 0 THEN a \div b ELSE -((-a) \div b)

\* a * k / d for a >= 0 and d > 0, the product kept within 32 bits
MulDiv(a, k, d) == (a \div d) * k + ((a % d) * k) \div d

RECURSIVE ISqrtBits(_, _, _)
ISqrtBits(n, r, bit) ==
    IF bit = 0 THEN r
    ELSE IF r + bit <= n \div (r + bit)
         THEN ISqrtBits(n, r + bit, bit \div 2)
         ELSE ISqrtBits(n, r, bit \div 2)

\* std::sqrt of a non-negative scaled value: the largest r with r*r <= n
ISqrt(n) == ISqrtBits(n, 0, 32768)

\* atan(n/d) for 0 <= n <= d, d > 0, in 1e-4 rad (within 2e-3 rad of atan)
AtanRatio(n, d) ==
    LET q == (n * 10000) \div d
    IN  (q * 7854) \div 10000
        + (((q * (10000 - q)) \div 10000) * (2447 + (663 * q) \div 10000)) \div 10000

\* std::atan2(dy, dx) in 1e-4 rad, in (-pi, pi]
Atan2(dy, dx) ==
    IF dx = 0 /\ dy = 0 THEN 0
    ELSE LET ax == Abs(dx)
             ay == Abs(dy)
             a  == IF ay <= ax THEN AtanRatio(ay, ax)
                   ELSE (PI_U \div 2) - AtanRatio(ax, ay)
         IN  IF dx >= 0 THEN (IF dy >= 0 THEN a ELSE -a)
             ELSE (IF dy >= 0 THEN PI_U - a ELSE a - PI_U)

-----------------------------------------------------------------------------
(* TrackData *)

\* TrackPoint(): every field zero
TrackPoint ==
    [x |-> 0, y |-> 0, z |-> 0, w_tr_left |-> 0, w_tr_right |-> 0, banking |-> 0,
     s |-> 0, psi |-> 0, kappa |-> 0, ds |-> 0]

\* the raw points handed to addPoint: x, y, z in metres, widths in cm
PointInputs ==
    { [x |-> 0,   y |-> 0,   z |-> 0,  w_tr_left |-> 500, w_tr_right |-> 500, banking |-> 0],
      [x |-> 100, y |-> 0,   z |-> 0,  w_tr_left |-> 500, w_tr_right |-> 300, banking |-> 0],
      [x |-> 100, y |-> 100, z |-> 10, w_tr_left |-> 400, w_tr_right |-> 500, banking |-> 0] }

\* the arc lengths (cm) and lateral offsets (cm) the queries are made with
QueryS == { -15000, 0, 5000, 19000, 40000 }
QueryN == { -400, 0, 450 }

NoCall == [op |-> "none", outcome |-> "none"]

SegmentLength_Planar(p, q) ==
    LET dx == q.x - p.x
    IN  ISqrt((dx * dx) * (LS * LS))

\* sqrt(dx*dx + dy*dy + dz*dz) between two points, in cm
SegmentLength(p, q) ==
    LET dx == q.x - p.x
        dy == q.y - p.y
        dz == q.z - p.z
    IN  ISqrt((dx * dx + dy * dy + dz * dz) * (LS * LS))

RECURSIVE ArcLengthLoop_NoAccumulate(_, _)
ArcLengthLoop_NoAccumulate(pts, i) ==
    IF i > Len(pts) THEN pts
    ELSE LET segment_length == SegmentLength(pts[i-1], pts[i])
             p1 == [pts EXCEPT ![i-1].ds = segment_length]
             p2 == [p1 EXCEPT ![i].s = segment_length]
         IN  ArcLengthLoop_NoAccumulate(p2, i + 1)

RECURSIVE ArcLengthLoop(_, _)
\* the loop of calculateArcLength from index i on: sets pts[i-1].ds and pts[i].s
ArcLengthLoop(pts, i) ==
    IF i > Len(pts) THEN pts
    ELSE LET segment_length == SegmentLength(pts[i-1], pts[i])
             p1 == [pts EXCEPT ![i-1].ds = segment_length]
             p2 == [p1 EXCEPT ![i].s = p1[i-1].s + segment_length]
         IN  ArcLengthLoop(p2, i + 1)

\* calculateArcLength: the points with s and ds set (indices are 1-based here)
calculateArcLength(pts) ==
    LET n  == Len(pts)
        p0 == [pts EXCEPT ![1].s = 0]
        p1 == ArcLengthLoop(p0, 2)
    IN  [p1 EXCEPT ![n].ds = SegmentLength(p1[n], p1[1])]

\* total_length_ as calculateArcLength sets it
TotalLengthOf(pts) == pts[Len(pts)].s + pts[Len(pts)].ds

\* calculateHeading: central difference with cyclic neighbours
calculateHeading(pts) ==
    LET n == Len(pts)
    IN  [i \in 1..n |->
            LET i_prev == IF i = 1 THEN n ELSE i - 1
                i_next == IF i = n THEN 1 ELSE i + 1
                dx == pts[i_next].x - pts[i_prev].x
                dy == pts[i_next].y - pts[i_prev].y
            IN  [pts[i] EXCEPT !.psi = Atan2(dy, dx)]]

RECURSIVE normalizeAngle(_)
normalizeAngle(angle) ==
    IF angle > PI_U THEN normalizeAngle(angle - 2 * PI_U)
    ELSE IF angle < -PI_U THEN normalizeAngle(angle + 2 * PI_U)
    ELSE angle

\* calculateCurvature: kappa = dpsi / ds over the two neighbours
calculateCurvature(pts, total_length) ==
    LET n == Len(pts)
    IN  [i \in 1..n |->
            LET i_prev == IF i = 1 THEN n ELSE i - 1
                i_next == IF i = n THEN 1 ELSE i + 1
                dpsi == normalizeAngle(pts[i_next].psi - pts[i_prev].psi)
                ds0  == pts[i_next].s - pts[i_prev].s
                ds   == IF ds0 < 0 THEN ds0 + total_length ELSE ds0
            IN  [pts[i] EXCEPT !.kappa = IF ds > 0 THEN SDiv(dpsi * 10000, ds) ELSE 0]]

\* the three passes of preprocess(), in order
PreprocessedPoints(pts) ==
    LET a == calculateArcLength(pts)
        h == calculateHeading(a)
    IN  calculateCurvature(h, TotalLengthOf(a))

RECURSIVE findIndexLoop(_, _, _, _)
findIndexLoop(pts, s, left, right) ==
    IF left < right
    THEN LET mid == left + (right - left) \div 2
         IN  IF pts[mid + 1].s <= s
             THEN findIndexLoop(pts, s, mid + 1, right)
             ELSE findIndexLoop(pts, s, left, mid)
    ELSE left

findIndexAt_NoStepBack(pts, s) == findIndexLoop(pts, s, 0, Len(pts) - 1)

\* findIndexAt: 0-based index, as in the code
findIndexAt(pts, s) ==
    LET left == findIndexLoop(pts, s, 0, Len(pts) - 1)
    IN  IF left > 0 /\ pts[left + 1].s > s THEN left - 1 ELSE left

\* the two while loops that bring s into [0, L); they only end when L > 0
NormalizeTerminates(total_length) == total_length > 0
NormalizeS(s, total_length) == s % total_length

\* the interpolation parameter t = clamp((s - p1.s) / p1.ds, 0, 1) as the
\* fraction tnum / tden
InterpNum(p1, s) == IF p1.ds > 0 THEN Max(0, Min(p1.ds, s - p1.s)) ELSE 0
InterpDen(p1) == IF p1.ds > 0 THEN p1.ds ELSE 1

\* a + t * (b - a)
Lerp(a, b, tnum, tden) == a + SDiv(tnum * (b - a), tden)

\* the body of interpolateAt after the preprocessed_ check (s already normalised)
InterpolatedPoint(pts, s) ==
    LET i      == findIndexAt(pts, s)
        i_next == (i + 1) % Len(pts)
        p1     == pts[i + 1]
        p2     == pts[i_next + 1]
        tnum   == InterpNum(p1, s)
        tden   == InterpDen(p1)
        dpsi   == normalizeAngle(p2.psi - p1.psi)
    IN  [x |-> Lerp(p1.x * LS, p2.x * LS, tnum, tden),
         y |-> Lerp(p1.y * LS, p2.y * LS, tnum, tden),
         z |-> Lerp(p1.z * LS, p2.z * LS, tnum, tden),
         s |-> s,
         w_tr_left  |-> Lerp(p1.w_tr_left, p2.w_tr_left, tnum, tden),
         w_tr_right |-> Lerp(p1.w_tr_right, p2.w_tr_right, tnum, tden),
         banking |-> Lerp(p1.banking, p2.banking, tnum, tden),
         psi |-> normalizeAngle(p1.psi + SDiv(tnum * dpsi, tden)),
         kappa |-> Lerp(p1.kappa, p2.kappa, tnum, tden),
         ds |-> p1.ds]

\* the outcome of interpolateAt(s): it throws, never returns, or returns a point
interpolateAt(pts, total_length, preprocessed, s) ==
    IF ~preprocessed THEN [outcome |-> "throw"]
    ELSE IF ~NormalizeTerminates(total_length) THEN [outcome |-> "hang"]
    ELSE [outcome |-> "ok",
          value |-> InterpolatedPoint(pts, NormalizeS(s, total_length))]

\* the outcome of getCurvatureAt(s)
getCurvatureAt(pts, total_length, preprocessed, s) ==
    IF ~preprocessed THEN [outcome |-> "throw"]
    ELSE IF ~NormalizeTerminates(total_length) THEN [outcome |-> "hang"]
    ELSE LET sn     == NormalizeS(s, total_length)
             i      == findIndexAt(pts, sn)
             i_next == (i + 1) % Len(pts)
             p1     == pts[i + 1]
             p2     == pts[i_next + 1]
         IN  [outcome |-> "ok",
              value |-> Lerp(p1.kappa, p2.kappa, InterpNum(p1, sn), InterpDen(p1))]

\* the outcome of isWithinBounds(s, n)
isWithinBounds(pts, total_length, preprocessed, s, n) ==
    IF ~preprocessed THEN [outcome |-> "throw"]
    ELSE LET r == interpolateAt(pts, total_length, preprocessed, s)
         IN  IF r.outcome # "ok" THEN r
             ELSE [outcome |-> "ok",
                   value |-> (n >= -r.value.w_tr_right /\ n <= r.value.w_tr_left)]

AddPoint_KeepsFlag ==
    /\ Len(points_) < MaxPoints
    /\ \E p \in PointInputs :
          points_' = Append(points_,
              [TrackPoint EXCEPT !.x = p.x, !.y = p.y, !.z = p.z,
                                 !.w_tr_left = p.w_tr_left,
                                 !.w_tr_right = p.w_tr_right,
                                 !.banking = p.banking])
    /\ hist_current' = FALSE
    /\ track_call' = [op |-> "addPoint", outcome |-> "ok"]
    /\ UNCHANGED <<total_length_, preprocessed_>>
    /\ UNCHANGED <<vehicleVars, tireVars, ggvVars, solverVars>>

\* addPoint(x, y, z, w_left, w_right, banking)
AddPoint ==
    /\ Len(points_) < MaxPoints
    /\ \E p \in PointInputs :
          points_' = Append(points_,
              [TrackPoint EXCEPT !.x = p.x, !.y = p.y, !.z = p.z,
                                 !.w_tr_left = p.w_tr_left,
                                 !.w_tr_right = p.w_tr_right,
                                 !.banking = p.banking])
    /\ preprocessed_' = FALSE
    /\ hist_current' = FALSE
    /\ track_call' = [op |-> "addPoint", outcome |-> "ok"]
    /\ UNCHANGED total_length_
    /\ UNCHANGED <<vehicleVars, tireVars, ggvVars, solverVars>>

PreprocessRejects_TwoPoints(pts) == Len(pts) < 2

\* the size check that opens preprocess()
PreprocessRejects(pts) == Len(pts) < 3

PreprocessThrows_SetsFlag ==
    /\ PreprocessRejects(points_)
    /\ track_call' = [op |-> "preprocess", outcome |-> "throw"]
    /\ preprocessed_' = TRUE
    /\ UNCHANGED <<points_, total_length_, hist_current>>
    /\ UNCHANGED <<vehicleVars, tireVars, ggvVars, solverVars>>

\* preprocess() on a track of fewer than 3 points
PreprocessThrows ==
    /\ PreprocessRejects(points_)
    /\ track_call' = [op |-> "preprocess", outcome |-> "throw"]
    /\ UNCHANGED <<points_, total_length_, preprocessed_, hist_current>>
    /\ UNCHANGED <<vehicleVars, tireVars, ggvVars, solverVars>>

\* preprocess() on a track of 3 points or more
PreprocessOk ==
    /\ ~PreprocessRejects(points_)
    /\ points_' = PreprocessedPoints(points_)
    /\ total_length_' = TotalLengthOf(calculateArcLength(points_))
    /\ preprocessed_' = TRUE
    /\ hist_current' = TRUE
    /\ track_call' = [op |-> "preprocess", outcome |-> "ok"]
    /\ UNCHANGED <<vehicleVars, tireVars, ggvVars, solverVars>>

InterpolateAtCall ==
    /\ \E s \in QueryS :
          track_call' = [op |-> "interpolateAt", s |-> s]
                        @@ interpolateAt(points_, total_length_, preprocessed_, s)
    /\ UNCHANGED <<points_, total_length_, preprocessed_, hist_current>>
    /\ UNCHANGED <<vehicleVars, tireVars, ggvVars, solverVars>>

GetCurvatureAtCall ==
    /\ \E s \in QueryS :
          track_call' = [op |-> "getCurvatureAt", s |-> s]
                        @@ getCurvatureAt(points_, total_length_, preprocessed_, s)
    /\ UNCHANGED <<points_, total_length_, preprocessed_, hist_current>>
    /\ UNCHANGED <<vehicleVars, tireVars, ggvVars, solverVars>>

IsWithinBoundsCall ==
    /\ \E s \in QueryS, n \in QueryN :
          track_call' = [op |-> "isWithinBounds", s |-> s, n |-> n]
                        @@ isWithinBounds(points_, total_length_, preprocessed_, s, n)
    /\ UNCHANGED <<points_, total_length_, preprocessed_, hist_current>>
    /\ UNCHANGED <<vehicleVars, tireVars, ggvVars, solverVars>>

\* TrackData(): no points, length 0, not preprocessed
TrackInit ==
    /\ points_ = <<>>
    /\ total_length_ = 0
    /\ preprocessed_ = FALSE
    /\ track_call = NoCall
    /\ hist_current = FALSE

-----------------------------------------------------------------------------
(* VehicleParams *)

\* the vehicle of the end-to-end scenarios, with the constructors' defaults
\* (MassParams(), AeroParams(), TireParams(), PowertrainParams(), BrakeParams())
\* for what the scenarios leave open; load_sensitivity is 1.0
BaseVehicle ==
    [mass |-> [mass |-> 800, cog_height |-> 30, wheelbase |-> 250,
               weight_distribution |-> 45],
     aero |-> [Cl |-> -300, Cd |-> 80, frontal_area |-> 150, air_density |-> 1225],
     tire |-> [mu_x |-> 160, mu_y |-> 180, load_sensitivity |-> 100,
               tire_radius |-> 30],
     powertrain |-> [engine_torque_curve |->
                         << [rpm |-> 5000, torque |-> 250],
                            [rpm |-> 10000, torque |-> 350],
                            [rpm |-> 15000, torque |-> 300] >>,
                     gear_ratios |-> <<300, 220, 170, 130, 100>>,
                     final_drive_ratio |-> 350,
                     drivetrain_efficiency |-> 95,
                     max_rpm |-> 15000, min_rpm |-> 4000],
     brake |-> [max_brake_force |-> 2000, brake_bias |-> 60]]

\* VehicleParams::GRAVITY, 9.81 m/s^2, in cm/s^2
GRAVITY == 981

validate_NoBrakeForceCheck(v) ==
    /\ ~(v.mass.mass <= 0)
    /\ ~(v.mass.cog_height < 0)
    /\ ~(v.mass.wheelbase <= 0)
    /\ ~(v.mass.weight_distribution < 0 \/ v.mass.weight_distribution > 100)
    /\ ~(v.aero.frontal_area <= 0)
    /\ ~(v.aero.air_density <= 0)
    /\ ~(v.tire.mu_x <= 0 \/ v.tire.mu_y <= 0)
    /\ ~(v.tire.tire_radius <= 0)
    /\ ~(v.tire.load_sensitivity < 0 \/ v.tire.load_sensitivity > 100)
    /\ ~(v.powertrain.engine_torque_curve = <<>>)
    /\ ~(v.powertrain.gear_ratios = <<>>)
    /\ ~(v.powertrain.final_drive_ratio <= 0)
    /\ ~(v.powertrain.drivetrain_efficiency <= 0
         \/ v.powertrain.drivetrain_efficiency > 100)
    /\ ~(v.brake.brake_bias < 0 \/ v.brake.brake_bias > 100)

\* VehicleParams::validate(): false at the first rule violated, true otherwise
validate(v) ==
    /\ ~(v.mass.mass <= 0)
    /\ ~(v.mass.cog_height < 0)
    /\ ~(v.mass.wheelbase <= 0)
    /\ ~(v.mass.weight_distribution < 0 \/ v.mass.weight_distribution > 100)
    /\ ~(v.aero.frontal_area <= 0)
    /\ ~(v.aero.air_density <= 0)
    /\ ~(v.tire.mu_x <= 0 \/ v.tire.mu_y <= 0)
    /\ ~(v.tire.tire_radius <= 0)
    /\ ~(v.tire.load_sensitivity < 0 \/ v.tire.load_sensitivity > 100)
    /\ ~(v.powertrain.engine_torque_curve = <<>>)
    /\ ~(v.powertrain.gear_ratios = <<>>)
    /\ ~(v.powertrain.final_drive_ratio <= 0)
    /\ ~(v.powertrain.drivetrain_efficiency <= 0
         \/ v.powertrain.drivetrain_efficiency > 100)
    /\ ~(v.brake.max_brake_force <= 0)
    /\ ~(v.brake.brake_bias < 0 \/ v.brake.brake_bias > 100)

\* parseVehicleJSON: the parsed vehicle is validated last
parseVehicleJSON(v) ==
    IF ~validate(v) THEN [outcome |-> "throw"] ELSE [outcome |-> "ok"]

\* QuasiSteadyStateSolver(track, vehicle): the two checks of the constructor
ConstructSolver(track_preprocessed, v) ==
    IF ~track_preprocessed THEN [outcome |-> "throw", what |-> "track"]
    ELSE IF ~validate(v) THEN [outcome |-> "throw", what |-> "vehicle"]
    ELSE [outcome |-> "ok", what |-> "none"]

-----------------------------------------------------------------------------
(* AerodynamicsModel *)

\* getAeroCoefficient(): 0.5 * rho * A, in 1e-5
getAeroCoefficient(aero) == (aero.air_density * aero.frontal_area) \div 2

\* v*v in hundredths of m^2/s^2
VSquared(v) == (v * v) \div 100

\* getDragForce(v) in daN
getDragForce(aero, v) ==
    SDiv(SDiv(getAeroCoefficient(aero) * aero.Cd, 100000) * VSquared(v), 100000)

\* getDownforce(v) in daN
getDownforce(aero, v) ==
    SDiv((-SDiv(getAeroCoefficient(aero) * aero.Cl, 100000)) * VSquared(v), 100000)

\* getTotalVerticalLoad(v, mass, g) in daN
getTotalVerticalLoad(aero, v, mass, g) ==
    (mass * g) \div 1000 + getDownforce(aero, v)

-----------------------------------------------------------------------------
(* TireModel *)

\* Fz_reference, 2000 N, in daN
Fz_reference == 200

\* applyLoadSensitivity(Fz, base_mu) = base_mu * pow(Fz / Fz_reference,
\* load_sensitivity - 1), in 1e-4; the exponents 0, -1/2 and -1 are modelled
applyLoadSensitivity(tire, Fz, base_mu) ==
    IF Fz <= 0 THEN 0
    ELSE CASE tire.load_sensitivity = 100 -> base_mu * 100
           [] tire.load_sensitivity = 50 ->
                 (base_mu * ISqrt((Fz_reference * 1000000) \div Fz)) \div 10
           [] tire.load_sensitivity = 0 -> (base_mu * 100 * Fz_reference) \div Fz

getEffectiveMu(tire, Fz, base_mu) == applyLoadSensitivity(tire, Fz, base_mu)

\* getMaxTotalForce(Fz) in daN
getMaxTotalForce(tire, Fz) ==
    LET mu_avg == (tire.mu_x + tire.mu_y) \div 2
        mu_eff == getEffectiveMu(tire, Fz, mu_avg)
    IN  (mu_eff * Fz) \div 10000

getAvailableLongitudinalForce_NoEllipse(tire, Fz, Fy_current) ==
    getMaxTotalForce(tire, Fz)

\* getAvailableLongitudinalForce(Fz, Fy_current) in daN
getAvailableLongitudinalForce(tire, Fz, Fy_current) ==
    LET F_max == getMaxTotalForce(tire, Fz)
        Fy_squared == Fy_current * Fy_current
        F_max_squared == F_max * F_max
    IN  IF Fy_squared >= F_max_squared THEN 0
        ELSE ISqrt(F_max_squared - Fy_squared)

\* isWithinFrictionCircle(Fx, Fy, Fz)
isWithinFrictionCircle(tire, Fx, Fy, Fz) ==
    ISqrt(Fx * Fx + Fy * Fy) <= getMaxTotalForce(tire, Fz)

-----------------------------------------------------------------------------
(* PowertrainModel *)

isValidGear(pt, gear) == gear >= 1 /\ gear <= Len(pt.gear_ratios)

\* getTotalGearRatio(gear) in hundredths
getTotalGearRatio(pt, gear) ==
    IF ~isValidGear(pt, gear) THEN 0
    ELSE (pt.gear_ratios[gear] * pt.final_drive_ratio) \div 100

\* getRPM(v, gear): (v / r) * total_ratio * 60 / (2 pi), 60 / (2 pi) = 9.55
getRPM(pt, tire_radius, v, gear) ==
    IF ~isValidGear(pt, gear) THEN 0
    ELSE (((v * getTotalGearRatio(pt, gear)) \div tire_radius) * 955) \div 10000

RECURSIVE UpperBound(_, _, _)
\* std::map::upper_bound: the first entry from i on whose key is > rpm
UpperBound(curve, rpm, i) ==
    IF curve[i].rpm > rpm THEN i ELSE UpperBound(curve, rpm, i + 1)

\* PowertrainParams::getTorqueAt(rpm) in hundredths of Nm
getTorqueAt(pt, rpm0) ==
    LET curve == pt.engine_torque_curve
        rpm   == Max(0, rpm0)
    IN  IF curve = <<>> THEN 0
        ELSE IF rpm <= curve[1].rpm THEN curve[1].torque * 100
        ELSE IF rpm >= curve[Len(curve)].rpm THEN curve[Len(curve)].torque * 100
        ELSE LET upper == UpperBound(curve, rpm, 1)
                 lower == upper - 1
                 rpm1 == curve[lower].rpm
                 rpm2 == curve[upper].rpm
                 torque1 == curve[lower].torque
                 torque2 == curve[upper].torque
             IN  torque1 * 100 + SDiv((rpm - rpm1) * (torque2 - torque1) * 100,
                                      rpm2 - rpm1)

getEngineTorque(pt, rpm) == getTorqueAt(pt, rpm)

\* getWheelForce(v, gear) in daN
getWheelForce(pt, tire_radius, v, gear) ==
    IF ~isValidGear(pt, gear) \/ v <= 0 THEN 0
    ELSE LET rpm == getRPM(pt, tire_radius, v, gear)
         IN  IF rpm < pt.min_rpm \/ rpm > pt.max_rpm THEN 0
             ELSE LET engine_torque == getEngineTorque(pt, rpm)
                      total_ratio   == getTotalGearRatio(pt, gear)
                      wheel_torque  ==
                          SDiv(SDiv(engine_torque * total_ratio, 100)
                               * pt.drivetrain_efficiency, 100)
                  IN  SDiv(wheel_torque, tire_radius * 10)

RECURSIVE MaxWheelForceLoop(_, _, _, _, _)
MaxWheelForceLoop(pt, tire_radius, v, gear, max_force) ==
    IF gear > Len(pt.gear_ratios) THEN max_force
    ELSE MaxWheelForceLoop(pt, tire_radius, v, gear + 1,
                           Max(max_force, getWheelForce(pt, tire_radius, v, gear)))

\* getMaxWheelForce(v) in daN; the code uses v = 0.01 m/s in first gear at v <= 0
getMaxWheelForce(pt, tire_radius, v) ==
    IF v <= 0 THEN getWheelForce(pt, tire_radius, 1, 1)
    ELSE MaxWheelForceLoop(pt, tire_radius, v, 1, 0)

\* getPeakPowerRPM(): the rpm of the first entry of the torque curve with the
\* largest power torque * rpm (in units of 2 pi / 60 W), 0 if no power is > 0
getPeakPowerRPM(pt) ==
    LET curve == pt.engine_torque_curve
        power(i) == curve[i].torque * curve[i].rpm
        rising == {i \in 1..Len(curve) :
                      power(i) > 0 /\ \A j \in 1..(i - 1) : power(j) < power(i)}
    IN  IF rising = {} THEN 0
        ELSE curve[CHOOSE i \in rising : \A j \in rising : j <= i].rpm

RECURSIVE OptimalBandLoop_LowestFirst(_, _, _, _)
OptimalBandLoop_LowestFirst(pt, tire_radius, velocity, i) ==
    LET lowest == {g \in 1..i :
                      LET rpm == getRPM(pt, tire_radius, velocity, g)
                      IN  rpm >= pt.min_rpm /\ rpm <= pt.max_rpm
                          /\ rpm * 100 >= pt.max_rpm * 70}
    IN  IF lowest = {} THEN 0 ELSE CHOOSE g \in lowest : \A h \in lowest : g <= h

RECURSIVE OptimalBandLoop(_, _, _, _)
\* the first loop of PowertrainParams::getOptimalGear from gear i down: the
\* gear returned, 0 if the loop ends without returning
OptimalBandLoop(pt, tire_radius, velocity, i) ==
    IF ~(i >= 1) THEN 0
    ELSE LET rpm == getRPM(pt, tire_radius, velocity, i)
         IN  IF rpm >= pt.min_rpm /\ rpm <= pt.max_rpm
                /\ rpm * 100 >= pt.max_rpm * 70
             THEN i
             ELSE OptimalBandLoop(pt, tire_radius, velocity, i - 1)

RECURSIVE ValidRangeLoop(_, _, _, _)
\* the fallback loop of PowertrainParams::getOptimalGear from gear i up
ValidRangeLoop(pt, tire_radius, velocity, i) ==
    IF ~(i <= Len(pt.gear_ratios)) THEN 0
    ELSE LET rpm == getRPM(pt, tire_radius, velocity, i)
         IN  IF rpm >= pt.min_rpm /\ rpm <= pt.max_rpm THEN i
             ELSE ValidRangeLoop(pt, tire_radius, velocity, i + 1)

\* PowertrainParams::getOptimalGear(velocity, tire_radius, target_rpm); the
\* code does not read target_rpm
PowertrainParams_getOptimalGear(pt, velocity, tire_radius, target_rpm) ==
    IF pt.gear_ratios = <<>> \/ tire_radius <= 0 \/ velocity <= VS \div 10 THEN 1
    ELSE LET in_band == OptimalBandLoop(pt, tire_radius, velocity, Len(pt.gear_ratios))
         IN  IF in_band # 0 THEN in_band
             ELSE LET in_range == ValidRangeLoop(pt, tire_radius, velocity, 1)
                  IN  IF in_range # 0 THEN in_range ELSE 1

\* PowertrainModel::getOptimalGear(v)
getOptimalGear(pt, tire_radius, v) ==
    IF v <= 0 THEN 1
    ELSE PowertrainParams_getOptimalGear(pt, v, tire_radius, getPeakPowerRPM(pt))

-----------------------------------------------------------------------------
(* GGVGenerator *)

\* GGVGenerator(vehicle): nothing generated, steps 1.  ggv_points_ is held as
\* its size; the point of an index is computed from the grid when it is read.
\* hist_generated is history: generate() has been called on this generator.
GGVConstructed ==
    [generated_ |-> FALSE, v_min_ |-> 0, v_max_ |-> 0, v_step_ |-> VS,
     ay_min_ |-> 0, ay_max_ |-> 0, ay_step_ |-> AS,
     size |-> 0, hist_generated |-> FALSE]

\* the number of passes of a loop  for (x = lo; x <= hi; x += step)
LoopCount(lo, hi, step) == IF lo > hi THEN 0 ELSE (hi - lo) \div step + 1

\* generate(v_min, v_max, v_step, ay_max, ay_step)
generate(v_min, v_max, v_step, ay_max, ay_step) ==
    [generated_ |-> TRUE, v_min_ |-> v_min, v_max_ |-> v_max, v_step_ |-> v_step,
     ay_min_ |-> 0, ay_max_ |-> ay_max, ay_step_ |-> ay_step,
     size |-> LoopCount(v_min, v_max, v_step) * LoopCount(0, ay_max, ay_step),
     hist_generated |-> TRUE]

\* calculateMaxAcceleration(v, ay) in cm/s^2
calculateMaxAcceleration(veh, v0, ay) ==
    LET g  == GRAVITY
        m  == veh.mass.mass
        v  == IF v0 < VS \div 10 THEN VS \div 10 ELSE v0
        Fz_total    == getTotalVerticalLoad(veh.aero, v, m, g)
        Fy_required == SDiv(m * ay, 1000)
        Fx_tire_max == getAvailableLongitudinalForce(veh.tire, Fz_total, Fy_required)
        Fx_engine   == getMaxWheelForce(veh.powertrain, veh.tire.tire_radius, v)
        F_drag      == getDragForce(veh.aero, v)
        Fx_available == Min(Fx_engine, Fx_tire_max)
        Fx_net      == Fx_available - F_drag
        ax          == SDiv(Fx_net * 1000, m)
    IN  Max(0, Min(ax, 50 * AS))

\* calculateMaxBraking(v, ay) in cm/s^2
calculateMaxBraking(veh, v0, ay) ==
    LET g  == GRAVITY
        m  == veh.mass.mass
        v  == IF v0 < VS \div 10 THEN VS \div 10 ELSE v0
        Fz_total    == getTotalVerticalLoad(veh.aero, v, m, g)
        Fy_required == SDiv(m * ay, 1000)
        Fx_tire_max == getAvailableLongitudinalForce(veh.tire, Fz_total, Fy_required)
        Fx_brake_system == veh.brake.max_brake_force
        Fx_brake    == Min(Fx_tire_max, Fx_brake_system)
        F_drag      == getDragForce(veh.aero, v)
        Fx_net      == -(Fx_brake + F_drag)
        ax          == SDiv(Fx_net * 1000, m)
    IN  Max(ax, -60 * AS)

RECURSIVE GenerateLoop(_, _, _, _, _)
\* the nested loops of generate(): for (v = v_min; v <= v_max; v += v_step)
\* for (ay = 0; ay <= ay_max; ay += ay_step) push_back(point)
GenerateLoop(veh, g, v, ay, points) ==
    IF ~(v <= g.v_max_) THEN points
    ELSE IF ~(ay <= g.ay_max_) THEN GenerateLoop(veh, g, v + g.v_step_, 0, points)
    ELSE GenerateLoop(veh, g, v, ay + g.ay_step_,
                      Append(points,
                             [velocity |-> v, ay_lateral |-> ay,
                              ax_max_accel |-> calculateMaxAcceleration(veh, v, ay),
                              ax_max_brake |-> calculateMaxBraking(veh, v, ay)]))

\* getPoints(): ggv_points_, empty until generate() has filled it
getPoints(veh, g) ==
    IF ~g.hist_generated THEN <<>> ELSE GenerateLoop(veh, g, g.v_min_, 0, <<>>)

\* ggv_points_[index].velocity as the loops of generate() pushed it
GridVelocity(g, index) ==
    g.v_min_ + (index \div LoopCount(0, g.ay_max_, g.ay_step_)) * g.v_step_

\* ggv_points_[index].ay_lateral
GridLateral(g, index) ==
    (index % LoopCount(0, g.ay_max_, g.ay_step_)) * g.ay_step_

Blend_Swapped(v0, v1, rem, step) == SDiv(v0 * rem + v1 * (step - rem), step)

\* v0 * (1 - t) + v1 * t with t = rem / step
Blend(v0, v1, rem, step) == SDiv(v0 * (step - rem) + v1 * rem, step)

\* the bilinear interpolation of the corner values c = <<v00, v10, v01, v11>>
Bilinear(c, v_rem, v_step, ay_rem, ay_step) ==
    Blend(Blend(c[1], c[2], v_rem, v_step), Blend(c[3], c[4], v_rem, v_step),
          ay_rem, ay_step)

\* interpolateAcceleration(v, ay): bilinear over the four surrounding grid points
interpolateAcceleration(veh, g, v0, ay0) ==
    LET v      == Max(g.v_min_, Min(g.v_max_, v0))
        ay     == Max(0, Min(g.ay_max_, ay0))
        v_idx  == SDiv(v - g.v_min_, g.v_step_)
        ay_idx == SDiv(ay, g.ay_step_)
        v_rem  == (v - g.v_min_) - v_idx * g.v_step_
        ay_rem == ay - ay_idx * g.ay_step_
        num_ay_points == SDiv(g.ay_max_ - g.ay_min_, g.ay_step_) + 1
        \* ggv_points_[index].ax_max_accel, computed as generate() did
        getValue(vi, ayi) ==
            LET index == vi * num_ay_points + ayi
            IN  IF index >= 0 /\ index < g.size
                THEN calculateMaxAcceleration(veh, GridVelocity(g, index), GridLateral(g, index))
                ELSE 0
        \* v00, v10, v01, v11
        corners == [c \in 1..4 |->
                       getValue(v_idx + ((c - 1) % 2), ay_idx + ((c - 1) \div 2))]
    IN  Bilinear(corners, v_rem, g.v_step_, ay_rem, g.ay_step_)

\* interpolateBraking(v, ay)
interpolateBraking(veh, g, v0, ay0) ==
    LET v      == Max(g.v_min_, Min(g.v_max_, v0))
        ay     == Max(0, Min(g.ay_max_, ay0))
        v_idx  == SDiv(v - g.v_min_, g.v_step_)
        ay_idx == SDiv(ay, g.ay_step_)
        v_rem  == (v - g.v_min_) - v_idx * g.v_step_
        ay_rem == ay - ay_idx * g.ay_step_
        num_ay_points == SDiv(g.ay_max_ - g.ay_min_, g.ay_step_) + 1
        \* ggv_points_[index].ax_max_brake, computed as generate() did
        getValue(vi, ayi) ==
            LET index == vi * num_ay_points + ayi
            IN  IF index >= 0 /\ index < g.size
                THEN calculateMaxBraking(veh, GridVelocity(g, index), GridLateral(g, index))
                ELSE 0
        \* v00, v10, v01, v11
        corners == [c \in 1..4 |->
                       getValue(v_idx + ((c - 1) % 2), ay_idx + ((c - 1) \div 2))]
    IN  Bilinear(corners, v_rem, g.v_step_, ay_rem, g.ay_step_)

\* getMaxAcceleration(v, ay): throws while nothing is generated
getMaxAcceleration(veh, g, v, ay) ==
    IF ~g.generated_ THEN [outcome |-> "throw", value |-> 0]
    ELSE [outcome |-> "ok", value |-> interpolateAcceleration(veh, g, v, Abs(ay))]

\* getMaxBraking(v, ay): throws while nothing is generated
getMaxBraking(veh, g, v, ay) ==
    IF ~g.generated_ THEN [outcome |-> "throw", value |-> 0]
    ELSE [outcome |-> "ok", value |-> interpolateBraking(veh, g, v, Abs(ay))]

-----------------------------------------------------------------------------
(* QuasiSteadyStateSolver *)

\* times beyond the range of milliseconds are held as seconds and milliseconds
TimeOf(ms) == [sec |-> ms \div 1000, msec |-> ms % 1000]

TimeLess(a, b) == a.sec < b.sec \/ (a.sec = b.sec /\ a.msec < b.msec)

\* std::abs(a - b)
TimeAbsDiff(a, b) ==
    LET hi == IF TimeLess(a, b) THEN b ELSE a
        lo == IF TimeLess(a, b) THEN a ELSE b
    IN  IF hi.msec >= lo.msec
        THEN [sec |-> hi.sec - lo.sec, msec |-> hi.msec - lo.msec]
        ELSE [sec |-> hi.sec - lo.sec - 1, msec |-> hi.msec + 1000 - lo.msec]

\* prev_lap_time = 1e9 at the start of solve()
T0 == [sec |-> 1000000000, msec |-> 0]

\* initial_speed = 50.0 m/s
initial_speed == 5000

initialize_NoGenerate(g) == g

\* initialize(): ggv_->generate(0.0, 120.0, 0.5, 50.0, 1.0)
initialize(g) == generate(0, 120 * VS, VS \div 2, 50 * AS, AS)

solveCorneringVelocity_AeroAdded(veh, kappa) ==
    LET g   == GRAVITY
        m   == veh.mass.mass
        mu  == veh.tire.mu_y
        rho == veh.aero.air_density
        Cl  == veh.aero.Cl
        A   == veh.aero.frontal_area
    IN  IF Abs(kappa) < 2000 THEN 110 * VS
        ELSE LET abs_kappa   == Abs(kappa)
                 aero_factor == SDiv(SDiv(SDiv(mu * rho * (-Cl), 1000) * A, 2), 1000)
                 denominator == (m * abs_kappa) \div 1000 + aero_factor
                 numerator   == (mu * m * g) \div 100
             IN  IF denominator <= 0 THEN 100 * VS
                 ELSE LET v_squared == MulDiv(numerator, 1000, denominator) * 100
                      IN  IF v_squared < 0 THEN 0 ELSE ISqrt(v_squared)

\* solveCorneringVelocity(kappa) in cm/s
solveCorneringVelocity(veh, kappa) ==
    LET g   == GRAVITY
        m   == veh.mass.mass
        mu  == veh.tire.mu_y
        rho == veh.aero.air_density
        Cl  == veh.aero.Cl
        A   == veh.aero.frontal_area
    IN  IF Abs(kappa) < 2000 THEN 110 * VS
        ELSE LET abs_kappa   == Abs(kappa)
                 \* aero_factor and denominator in 1e-3, numerator in 1e-2
                 aero_factor == SDiv(SDiv(SDiv(mu * rho * (-Cl), 1000) * A, 2), 1000)
                 denominator == (m * abs_kappa) \div 1000 - aero_factor
                 numerator   == (mu * m * g) \div 100
             IN  IF denominator <= 0 THEN 100 * VS
                 ELSE LET v_squared == MulDiv(numerator, 1000, denominator) * 100
                      IN  IF v_squared < 0 THEN 0 ELSE ISqrt(v_squared)

\* calculateCorneringLimit(): v_corner_[i] for every point
calculateCorneringLimit(veh, pts) ==
    [i \in 1..Len(pts) |-> solveCorneringVelocity(veh, pts[i].kappa)]

\* v * v * |kappa| in cm/s^2
LateralAcceleration(v, kappa) == (((v * v) \div 10000) * Abs(kappa)) \div 10000

\* (v_squared > 0.0) ? std::sqrt(v_squared) : otherwise
SqrtIfPositive(v_squared, otherwise) ==
    IF v_squared > 0 THEN ISqrt(v_squared) ELSE otherwise

RECURSIVE ForwardLoop_StartsAtTarget(_, _, _, _, _, _)
ForwardLoop_StartsAtTarget(veh, g, pts, v_corner, v_accel, i) ==
    IF i > Len(pts) - 1 THEN v_accel
    ELSE LET v_start == Max(v_accel[i+1], VS)
             ay      == LateralAcceleration(v_start, pts[i].kappa)
             ax_max  == Min(getMaxAcceleration(veh, g, v_start, ay).value, 50 * AS)
             v_squared_end == v_start * v_start + 2 * ax_max * pts[i].ds
             v_end   == SqrtIfPositive(v_squared_end, v_start)
             v_next  == Max(Min(v_end, v_corner[i+1]), VS)
         IN  ForwardLoop_StartsAtTarget(veh, g, pts, v_corner,
                                        [v_accel EXCEPT ![i+1] = v_next], i + 1)

RECURSIVE ForwardLoop(_, _, _, _, _, _)
\* the loop of forwardIntegration from index i on (1-based): sets v_accel[i+1]
ForwardLoop(veh, g, pts, v_corner, v_accel, i) ==
    IF i > Len(pts) - 1 THEN v_accel
    ELSE LET v_start == Max(v_accel[i], VS)
             ay      == LateralAcceleration(v_start, pts[i].kappa)
             ax_max  == Min(getMaxAcceleration(veh, g, v_start, ay).value, 50 * AS)
             v_squared_end == v_start * v_start + 2 * ax_max * pts[i].ds
             v_end   == SqrtIfPositive(v_squared_end, v_start)
             v_next  == Max(Min(v_end, v_corner[i+1]), VS)
         IN  ForwardLoop(veh, g, pts, v_corner, [v_accel EXCEPT ![i+1] = v_next], i + 1)

ForwardClosure_NoMin(veh, g, pts, v_corner, v_accel) ==
    LET last    == Len(pts)
        v_start == v_accel[last]
        ay      == LateralAcceleration(v_start, pts[last].kappa)
        ax_max  == getMaxAcceleration(veh, g, v_start, ay).value
        v_squared_end == v_start * v_start + 2 * ax_max * pts[last].ds
        v_end   == SqrtIfPositive(v_squared_end, 0)
    IN  [v_accel EXCEPT ![1] = v_end]

\* the loop closure of forwardIntegration, from the last point to the first
ForwardClosure(veh, g, pts, v_corner, v_accel) ==
    LET last    == Len(pts)
        v_start == v_accel[last]
        ay      == LateralAcceleration(v_start, pts[last].kappa)
        ax_max  == getMaxAcceleration(veh, g, v_start, ay).value
        v_squared_end == v_start * v_start + 2 * ax_max * pts[last].ds
        v_end   == SqrtIfPositive(v_squared_end, 0)
    IN  [v_accel EXCEPT ![1] = Min(v_accel[1], Min(v_end, v_corner[1]))]

\* forwardIntegration(): the loop, then the loop closure
forwardIntegration(veh, g, pts, v_corner, v_accel) ==
    ForwardClosure(veh, g, pts, v_corner,
                   ForwardLoop(veh, g, pts, v_corner, v_accel, 1))

RECURSIVE BackwardLoop(_, _, _, _, _, _)
\* the loop of backwardIntegration from index i down (1-based): sets v_brake[i-1]
BackwardLoop(veh, g, pts, v_corner, v_brake, i) ==
    IF ~(i > 1) THEN v_brake
    ELSE LET v_start == Max(v_brake[i], VS)
             i_prev  == i - 1
             ay      == LateralAcceleration(v_start, pts[i].kappa)
             ax_min  == Max(getMaxBraking(veh, g, v_start, ay).value, -60 * AS)
             v_squared_prev == v_start * v_start - 2 * ax_min * pts[i_prev].ds
             v_prev  == SqrtIfPositive(v_squared_prev, v_start)
             v_new   == Max(Min(v_prev, v_corner[i_prev]), VS)
         IN  BackwardLoop(veh, g, pts, v_corner,
                          [v_brake EXCEPT ![i_prev] = v_new], i - 1)

\* the loop closure of backwardIntegration, from the first point to the last
BackwardClosure(veh, g, pts, v_corner, v_brake) ==
    LET last    == Len(pts)
        v_start == v_brake[1]
        ay      == LateralAcceleration(v_start, pts[1].kappa)
        ax_min  == getMaxBraking(veh, g, v_start, ay).value
        v_squared_prev == v_start * v_start - 2 * ax_min * pts[last].ds
        v_prev  == SqrtIfPositive(v_squared_prev, 0)
    IN  [v_brake EXCEPT ![last] = Min(v_brake[last], Min(v_prev, v_corner[last]))]

\* backwardIntegration(): the loop, then the loop closure
backwardIntegration(veh, g, pts, v_corner, v_brake) ==
    BackwardClosure(veh, g, pts, v_corner,
                    BackwardLoop(veh, g, pts, v_corner, v_brake, Len(pts)))

combineProfiles_NoBrake(v_corner, v_accel, v_brake) ==
    [i \in 1..Len(v_corner) |-> Min(v_corner[i], v_accel[i])]

\* combineProfiles(): the pointwise minimum of the three profiles
combineProfiles(v_corner, v_accel, v_brake) ==
    [i \in 1..Len(v_corner) |-> Min(v_corner[i], Min(v_accel[i], v_brake[i]))]

RECURSIVE LapTimeLoop(_, _, _, _)
LapTimeLoop(pts, v_optimal, i, total_time) ==
    IF i > Len(pts) THEN total_time
    ELSE IF v_optimal[i] > 0
         THEN LapTimeLoop(pts, v_optimal, i + 1,
                          total_time + (pts[i].ds * 1000) \div v_optimal[i])
         ELSE LapTimeLoop(pts, v_optimal, i + 1, total_time)

\* calculateLapTime() in ms: the sum of ds / v over the points with v > 0
calculateLapTime(pts, v_optimal) == LapTimeLoop(pts, v_optimal, 1, 0)

\* createState(index, time): the position, velocity and time of the state; its
\* other fields are telemetry derived from these, the point and the vehicle
createState(pts, v_optimal, index, time) ==
    [s |-> pts[index].s, n |-> 0,
     x |-> pts[index].x, y |-> pts[index].y, z |-> pts[index].z,
     v |-> v_optimal[index], timestamp |-> time]

RECURSIVE DetailedResultLoop(_, _, _, _, _)
\* the loop of getDetailedResult() from index i on (1-based)
DetailedResultLoop(pts, v_optimal, i, cumulative_time, states) ==
    IF i > Len(pts) THEN states
    ELSE DetailedResultLoop(
             pts, v_optimal, i + 1,
             IF v_optimal[i] > 0
             THEN cumulative_time + (pts[i].ds * 1000) \div v_optimal[i]
             ELSE cumulative_time,
             Append(states, createState(pts, v_optimal, i, cumulative_time)))

\* getDetailedResult(): a LapResult of lap_time_ and one state per track point
getDetailedResult(pts, v_optimal, lap_time) ==
    [lap_time |-> lap_time,
     states |-> DetailedResultLoop(pts, v_optimal, 1, 0, <<>>)]

-----------------------------------------------------------------------------
(* The parts a specification does not exercise stay as constructed *)

GGVInit ==
    /\ ggv = [solver |-> GGVConstructed, user |-> GGVConstructed]
    /\ ggv_call = NoCall

\* history of a solve() call: the iterations run, their lap times, how it ended
\* rerun: solve() was called with the arguments of the solve() before it on
\* this solver, which converged after rerun.iterations passes to rerun.lap_time
NoRerun == [is |-> FALSE, iterations |-> 0, lap_time |-> 0]

NoSolve == [iterations |-> 0, lap_times |-> <<>>, stopped |-> "none",
            anchors_kept |-> FALSE,
            rerun |-> NoRerun]

\* no solver was built before this one
NoLighter == [known |-> FALSE]

\* no solver constructed
SolverAbsent ==
    /\ pc = "absent"
    /\ max_iterations = 0
    /\ tolerance = [sec |-> 0, msec |-> 0]
    /\ iter = 0
    /\ prev_lap_time = [sec |-> 0, msec |-> 0]
    /\ v_corner_ = <<>>
    /\ v_accel_ = <<>>
    /\ v_brake_ = <<>>
    /\ v_optimal_ = <<>>
    /\ lap_time_ = 0
    /\ converged_ = FALSE
    /\ iterations_used_ = 0
    /\ solver_call = NoCall
    /\ solve_log = NoSolve
    /\ hist_lighter = NoLighter

-----------------------------------------------------------------------------
(* Specification of TrackData: addPoint, preprocess and the queries *)

Init ==
    /\ TrackInit
    /\ vehicle = BaseVehicle
    /\ vehicle_call = NoCall
    /\ tire_call = NoCall
    /\ GGVInit
    /\ SolverAbsent

Next ==
    \/ AddPoint
    \/ PreprocessThrows
    \/ PreprocessOk
    \/ InterpolateAtCall
    \/ GetCurvatureAtCall
    \/ IsWithinBoundsCall

Spec == Init /\ [][Next]_vars

-----------------------------------------------------------------------------
(* Specification of VehicleParams::validate and its callers *)

\* vehicles that violate any combination of the rules on mass, area, density,
\* radius, efficiency, brake force, torque curve, gear list, bias, distribution
VehiclesListedRules ==
    { [BaseVehicle EXCEPT
          !.mass.mass = m, !.mass.weight_distribution = wd,
          !.aero.frontal_area = a, !.aero.air_density = rho,
          !.tire.tire_radius = r,
          !.powertrain.drivetrain_efficiency = eff,
          !.powertrain.engine_torque_curve = curve,
          !.powertrain.gear_ratios = gears,
          !.brake.max_brake_force = bf, !.brake.brake_bias = bias] :
        m \in {800, 0}, wd \in {45, -1, 101},
        a \in {150, 0}, rho \in {1225, -1}, r \in {30, 0},
        eff \in {95, 0, 101},
        curve \in {BaseVehicle.powertrain.engine_torque_curve, <<>>},
        gears \in {BaseVehicle.powertrain.gear_ratios, <<>>},
        bf \in {2000, 0}, bias \in {60, -1, 101} }

\* vehicles that differ from the base vehicle in one other parameter
VehiclesOtherRules ==
    { [BaseVehicle EXCEPT !.mass.cog_height = h] : h \in {-1, 0} }
    \cup { [BaseVehicle EXCEPT !.mass.wheelbase = l] : l \in {0, -250} }
    \cup { [BaseVehicle EXCEPT !.tire.mu_x = mu] : mu \in {0, -160} }
    \cup { [BaseVehicle EXCEPT !.tire.mu_y = mu] : mu \in {0, -180} }
    \cup { [BaseVehicle EXCEPT !.tire.load_sensitivity = ls] : ls \in {-1, 0, 90, 101} }
    \cup { [BaseVehicle EXCEPT !.powertrain.final_drive_ratio = f] : f \in {0, -350} }
    \cup { [BaseVehicle EXCEPT !.aero.Cd = cd] : cd \in {0, -80, -800} }
    \cup { [BaseVehicle EXCEPT !.aero.Cl = cl] : cl \in {0, 300} }
    \cup { [BaseVehicle EXCEPT !.powertrain.min_rpm = lo] : lo \in {0, 16000} }
    \cup { [BaseVehicle EXCEPT !.mass.mass = m] : m \in {-800, 1600} }
    \cup { [BaseVehicle EXCEPT !.mass.weight_distribution = wd] : wd \in {0, 100} }
    \cup { [BaseVehicle EXCEPT !.brake.brake_bias = b] : b \in {0, 100} }
    \cup { [BaseVehicle EXCEPT !.powertrain.drivetrain_efficiency = e] : e \in {100, 1} }

ValidationVehicles == VehiclesListedRules \cup VehiclesOtherRules

\* a preprocessed track for the constructor: the three input points in a loop
TriangleTrack ==
    PreprocessedPoints(
        [i \in 1..3 |->
            LET p == CHOOSE q \in PointInputs :
                        Cardinality({r \in PointInputs : r.x + r.y < q.x + q.y}) = i - 1
            IN  [TrackPoint EXCEPT !.x = p.x, !.y = p.y, !.z = p.z,
                                   !.w_tr_left = p.w_tr_left,
                                   !.w_tr_right = p.w_tr_right]])

InitVehicle ==
    /\ \/ TrackInit
       \/ /\ points_ = TriangleTrack
          /\ total_length_ = TotalLengthOf(TriangleTrack)
          /\ preprocessed_ = TRUE
          /\ track_call = NoCall
          /\ hist_current = TRUE
    /\ vehicle \in ValidationVehicles
    /\ vehicle_call = NoCall
    /\ tire_call = NoCall
    /\ GGVInit
    /\ SolverAbsent

ValidateCall ==
    /\ vehicle_call' = [op |-> "validate", result |-> validate(vehicle)]
    /\ UNCHANGED vehicle
    /\ UNCHANGED <<trackVars, tireVars, ggvVars, solverVars>>

ParseVehicleCall ==
    /\ vehicle_call' = [op |-> "parseVehicleJSON"] @@ parseVehicleJSON(vehicle)
    /\ UNCHANGED vehicle
    /\ UNCHANGED <<trackVars, tireVars, ggvVars, solverVars>>

ConstructSolverCall ==
    /\ vehicle_call' = [op |-> "QuasiSteadyStateSolver"]
                       @@ ConstructSolver(preprocessed_, vehicle)
    /\ UNCHANGED vehicle
    /\ UNCHANGED <<trackVars, tireVars, ggvVars, solverVars>>

NextVehicle ==
    \/ ValidateCall
    \/ ParseVehicleCall
    \/ ConstructSolverCall

SpecVehicle == InitVehicle /\ [][NextVehicle]_vars

-----------------------------------------------------------------------------
(* Specification of TireModel: the friction ellipse *)

\* vertical loads and lateral forces, in daN
TireFz == { -100, 0, 1, 200, 785, 2000 }
TireFy == { -3000, -340, -1, 0, 85, 340, 1000, 3400 }
TireFx == { 0, 340 }

TireVehicles ==
    { [BaseVehicle EXCEPT !.tire.load_sensitivity = ls, !.tire.mu_x = mx] :
        ls \in {0, 50, 100}, mx \in {160, 180} }

InitTire ==
    /\ TrackInit
    /\ vehicle \in TireVehicles
    /\ vehicle_call = NoCall
    /\ tire_call = NoCall
    /\ GGVInit
    /\ SolverAbsent

GetAvailableLongitudinalForceCall ==
    /\ \E Fz \in TireFz, Fy \in TireFy :
          tire_call' = [op |-> "getAvailableLongitudinalForce", Fz |-> Fz, Fy |-> Fy,
                        F_max |-> getMaxTotalForce(vehicle.tire, Fz),
                        Fx |-> getAvailableLongitudinalForce(vehicle.tire, Fz, Fy)]
    /\ UNCHANGED <<trackVars, vehicleVars, ggvVars, solverVars>>

IsWithinFrictionCircleCall ==
    /\ \E Fz \in TireFz, Fy \in TireFy, Fx \in TireFx :
          tire_call' = [op |-> "isWithinFrictionCircle", Fz |-> Fz, Fy |-> Fy,
                        F_max |-> getMaxTotalForce(vehicle.tire, Fz), Fx |-> Fx,
                        result |-> isWithinFrictionCircle(vehicle.tire, Fx, Fy, Fz)]
    /\ UNCHANGED <<trackVars, vehicleVars, ggvVars, solverVars>>

NextTire ==
    \/ GetAvailableLongitudinalForceCall
    \/ IsWithinFrictionCircleCall

SpecTire == InitTire /\ [][NextTire]_vars

-----------------------------------------------------------------------------
(* Specification of QuasiSteadyStateSolver::solve and of GGVGenerator *)

\* closed tracks (x, y in metres) the solver is constructed on: a square of
\* side 100 m, an oval with a straight, a track with two points at one place
SolverTracks ==
    { << <<0, 0>>, <<100, 0>>, <<100, 100>>, <<0, 100>> >>,
      << <<0, 0>>, <<100, 0>>, <<200, 0>>, <<300, 0>>, <<400, 0>>,
         <<400, 100>>, <<0, 100>> >>,
      << <<0, 0>>, <<0, 0>>, <<100, 0>>, <<100, 100>> >> }

\* the track after addPoint for every point and preprocess()
BuiltTrack(xy) ==
    PreprocessedPoints([i \in 1..Len(xy) |->
        [TrackPoint EXCEPT !.x = xy[i][1], !.y = xy[i][2],
                           !.w_tr_left = 500, !.w_tr_right = 500]])

\* vehicles validate() accepts
SolverVehicles ==
    { BaseVehicle,
      [BaseVehicle EXCEPT !.aero.Cd = -800],
      [BaseVehicle EXCEPT !.tire.load_sensitivity = 50] }

\* the tolerance arguments of solve(): the default 0.001 s, 0, and 2e9 s
Tolerances ==
    { [sec |-> 0, msec |-> 1], [sec |-> 0, msec |-> 0],
      [sec |-> 2000000000, msec |-> 0] }

\* the arguments of generate() on the caller's generator: a coarse grid
GenerateInputs ==
    { [v_min |-> 10 * VS, v_max |-> 30 * VS, v_step |-> 10 * VS,
       ay_max |-> 20 * AS, ay_step |-> 10 * AS] }

\* the velocities (cm/s) and lateral accelerations (cm/s^2) of the queries
GGVQueryV == { 2550 }
GGVQueryAy == { -1500 }

\* a preprocessed track, a valid vehicle, and the solver constructed on them:
\* the profiles sized and zeroed, nothing generated
InitSolver ==
    /\ \E xy \in SolverTracks :
          /\ points_ = BuiltTrack(xy)
          /\ total_length_ = TotalLengthOf(BuiltTrack(xy))
    /\ preprocessed_ = TRUE
    /\ hist_current = TRUE
    /\ track_call = [op |-> "preprocess", outcome |-> "ok"]
    /\ vehicle \in SolverVehicles
    /\ vehicle_call = [op |-> "QuasiSteadyStateSolver"]
                      @@ ConstructSolver(TRUE, vehicle)
    /\ tire_call = NoCall
    /\ GGVInit
    /\ pc = "idle"
    /\ max_iterations = 0
    /\ tolerance = [sec |-> 0, msec |-> 0]
    /\ iter = 0
    /\ prev_lap_time = [sec |-> 0, msec |-> 0]
    /\ v_corner_ = [i \in 1..Len(points_) |-> 0]
    /\ v_accel_ = [i \in 1..Len(points_) |-> 0]
    /\ v_brake_ = [i \in 1..Len(points_) |-> 0]
    /\ v_optimal_ = [i \in 1..Len(points_) |-> 0]
    /\ lap_time_ = 0
    /\ converged_ = FALSE
    /\ iterations_used_ = 0
    /\ solver_call = NoCall
    /\ solve_log = NoSolve
    /\ hist_lighter = NoLighter

\* history: the solve() that starts with the arguments mi and tol follows a
\* solve() on this solver that converged with the same arguments
RerunOf(mi, tol) ==
    IF pc = "done" /\ converged_ /\ mi = max_iterations /\ tol = tolerance
    THEN [is |-> TRUE, iterations |-> iterations_used_, lap_time |-> lap_time_]
    ELSE NoRerun

SolveStart_KeepsPrevLapTime ==
    /\ pc \in {"idle", "done", "failed"}
    /\ \E mi \in 0..MaxIter, tol \in Tolerances :
          /\ max_iterations' = mi
          /\ tolerance' = tol
    /\ ggv' = [ggv EXCEPT !.solver = initialize(ggv.solver)]
    /\ v_corner_' = calculateCorneringLimit(vehicle, points_)
    /\ v_accel_' = [i \in 1..Len(points_) |-> Min(initial_speed, v_corner_'[i])]
    /\ v_brake_' = [i \in 1..Len(points_) |-> Min(initial_speed, v_corner_'[i])]
    /\ UNCHANGED prev_lap_time
    /\ converged_' = FALSE
    /\ iter' = 0
    /\ pc' = "loop"
    /\ solve_log' = [iterations |-> 0, lap_times |-> <<>>, stopped |-> "running",
                      anchors_kept |-> FALSE,
                      rerun |-> RerunOf(max_iterations', tolerance')]
    /\ solver_call' = [op |-> "solve", outcome |-> "called"]
    /\ UNCHANGED <<v_optimal_, lap_time_, iterations_used_, ggv_call, hist_lighter>>
    /\ UNCHANGED <<trackVars, vehicleVars, tireVars>>

\* solve(max_iterations, tolerance) up to the head of its loop
SolveStart ==
    /\ pc \in {"idle", "done", "failed"}
    /\ \E mi \in 0..MaxIter, tol \in Tolerances :
          /\ max_iterations' = mi
          /\ tolerance' = tol
    /\ ggv' = [ggv EXCEPT !.solver = initialize(ggv.solver)]
    /\ v_corner_' = calculateCorneringLimit(vehicle, points_)
    /\ v_accel_' = [i \in 1..Len(points_) |-> Min(initial_speed, v_corner_'[i])]
    /\ v_brake_' = [i \in 1..Len(points_) |-> Min(initial_speed, v_corner_'[i])]
    /\ prev_lap_time' = T0
    /\ converged_' = FALSE
    /\ iter' = 0
    /\ pc' = "loop"
    /\ solve_log' = [iterations |-> 0, lap_times |-> <<>>, stopped |-> "running",
                      anchors_kept |-> FALSE,
                      rerun |-> RerunOf(max_iterations', tolerance')]
    /\ solver_call' = [op |-> "solve", outcome |-> "called"]
    /\ UNCHANGED <<v_optimal_, lap_time_, iterations_used_, ggv_call, hist_lighter>>
    /\ UNCHANGED <<trackVars, vehicleVars, tireVars>>

\* history: the pass leaves v_accel_[0] and v_brake_[N-1] as they were
AnchorsKept ==
    /\ v_accel_'[1] = v_accel_[1]
    /\ v_brake_'[Len(points_)] = v_brake_[Len(points_)]

\* one pass of the loop of solve(): forward, backward, combine, lap time and
\* the convergence test; an exception of the generator leaves solve()
Iterate ==
    /\ pc = "loop"
    /\ iter < max_iterations
    /\ iterations_used_' = iter + 1
    /\ IF getMaxAcceleration(vehicle, ggv.solver, Max(v_accel_[1], VS), 0).outcome
             = "throw"
       THEN /\ pc' = "failed"
            /\ solve_log' = [solve_log EXCEPT !.stopped = "exception"]
            /\ UNCHANGED <<iter, prev_lap_time, v_accel_, v_brake_, v_optimal_,
                           lap_time_, converged_>>
       ELSE /\ v_accel_' = forwardIntegration(vehicle, ggv.solver, points_,
                                               v_corner_, v_accel_)
            /\ v_brake_' = backwardIntegration(vehicle, ggv.solver, points_,
                                                v_corner_, v_brake_)
            /\ v_optimal_' = combineProfiles(v_corner_, v_accel_', v_brake_')
            /\ lap_time_' = calculateLapTime(points_, v_optimal_')
            /\ IF TimeLess(TimeAbsDiff(TimeOf(lap_time_'), prev_lap_time), tolerance)
               THEN /\ converged_' = TRUE
                    /\ pc' = "done"
                    /\ solve_log' = [solve_log EXCEPT
                                        !.iterations = @ + 1,
                                        !.anchors_kept = AnchorsKept,
                                        !.lap_times = Append(@, lap_time_'),
                                        !.stopped = "tolerance"]
                    /\ UNCHANGED <<iter, prev_lap_time>>
               ELSE /\ prev_lap_time' = TimeOf(lap_time_')
                    /\ iter' = iter + 1
                    /\ solve_log' = [solve_log EXCEPT
                                        !.iterations = @ + 1,
                                        !.anchors_kept = AnchorsKept,
                                        !.lap_times = Append(@, lap_time_')]
                    /\ UNCHANGED <<pc, converged_>>
    /\ UNCHANGED <<max_iterations, tolerance, v_corner_, ggv, ggv_call,
                   solver_call, hist_lighter>>
    /\ UNCHANGED <<trackVars, vehicleVars, tireVars>>

\* the loop of solve() ends with iter = max_iterations; solve() returns lap_time_
SolveReturn ==
    /\ pc = "loop"
    /\ ~(iter < max_iterations)
    /\ pc' = "done"
    /\ solve_log' = [solve_log EXCEPT !.stopped = "exhausted"]
    /\ UNCHANGED <<max_iterations, tolerance, iter, prev_lap_time, v_corner_,
                   v_accel_, v_brake_, v_optimal_, lap_time_, converged_,
                   iterations_used_, solver_call, hist_lighter>>
    /\ UNCHANGED <<trackVars, vehicleVars, tireVars, ggvVars>>

\* generate() on the caller's generator; no call is made while solve() runs
GenerateCall ==
    /\ pc \in {"idle", "done", "failed"}
    /\ \E a \in GenerateInputs :
          ggv' = [ggv EXCEPT !.user =
                     generate(a.v_min, a.v_max, a.v_step, a.ay_max, a.ay_step)]
    /\ ggv_call' = [op |-> "generate", outcome |-> "ok", value |-> 0]
    /\ UNCHANGED <<trackVars, vehicleVars, tireVars, solverVars>>

\* getMaxAcceleration(v, ay) on the caller's generator
GetMaxAccelerationCall ==
    /\ pc \in {"idle", "done", "failed"}
    /\ \E v \in GGVQueryV, ay \in GGVQueryAy :
          ggv_call' = [op |-> "getMaxAcceleration"]
                      @@ getMaxAcceleration(vehicle, ggv.user, v, ay)
    /\ UNCHANGED ggv
    /\ UNCHANGED <<trackVars, vehicleVars, tireVars, solverVars>>

\* getMaxBraking(v, ay) on the caller's generator
GetMaxBrakingCall ==
    /\ pc \in {"idle", "done", "failed"}
    /\ \E v \in GGVQueryV, ay \in GGVQueryAy :
          ggv_call' = [op |-> "getMaxBraking"]
                      @@ getMaxBraking(vehicle, ggv.user, v, ay)
    /\ UNCHANGED ggv
    /\ UNCHANGED <<trackVars, vehicleVars, tireVars, solverVars>>

\* getDetailedResult() on the solver, between calls of solve()
GetDetailedResultCall ==
    /\ pc \in {"idle", "done", "failed"}
    /\ solver_call' = [op |-> "getDetailedResult", outcome |-> "ok",
                       result |-> getDetailedResult(points_, v_optimal_, lap_time_)]
    /\ UNCHANGED <<pc, max_iterations, tolerance, iter, prev_lap_time, v_corner_,
                   v_accel_, v_brake_, v_optimal_, lap_time_, converged_,
                   iterations_used_, solve_log, hist_lighter>>
    /\ UNCHANGED <<trackVars, vehicleVars, tireVars, ggvVars>>

NextSolver ==
    \/ SolveStart
    \/ Iterate
    \/ SolveReturn
    \/ GetDetailedResultCall
    \/ GenerateCall
    \/ GetMaxAccelerationCall
    \/ GetMaxBrakingCall

SpecSolver == InitSolver /\ [][NextSolver]_vars

-----------------------------------------------------------------------------
(* Specification of two solvers on one track, the second for twice the mass *)

\* vehicles validate() accepts: downforce, no lift, lift, load-sensitive tires
MassVehicles ==
    { BaseVehicle,
      [BaseVehicle EXCEPT !.aero.Cl = 0],
      [BaseVehicle EXCEPT !.aero.Cl = 300],
      [BaseVehicle EXCEPT !.tire.load_sensitivity = 50] }

InitMass ==
    /\ \E xy \in SolverTracks :
          /\ points_ = BuiltTrack(xy)
          /\ total_length_ = TotalLengthOf(BuiltTrack(xy))
    /\ preprocessed_ = TRUE
    /\ hist_current = TRUE
    /\ track_call = [op |-> "preprocess", outcome |-> "ok"]
    /\ vehicle \in MassVehicles
    /\ vehicle_call = [op |-> "QuasiSteadyStateSolver"]
                      @@ ConstructSolver(TRUE, vehicle)
    /\ tire_call = NoCall
    /\ GGVInit
    /\ pc = "idle"
    /\ max_iterations = 0
    /\ tolerance = [sec |-> 0, msec |-> 0]
    /\ iter = 0
    /\ prev_lap_time = [sec |-> 0, msec |-> 0]
    /\ v_corner_ = [i \in 1..Len(points_) |-> 0]
    /\ v_accel_ = [i \in 1..Len(points_) |-> 0]
    /\ v_brake_ = [i \in 1..Len(points_) |-> 0]
    /\ v_optimal_ = [i \in 1..Len(points_) |-> 0]
    /\ lap_time_ = 0
    /\ converged_ = FALSE
    /\ iterations_used_ = 0
    /\ solver_call = NoCall
    /\ solve_log = NoSolve
    /\ hist_lighter = NoLighter

\* after a solve() of at least one iteration: the vehicle's mass is doubled,
\* all else equal, and QuasiSteadyStateSolver(track, vehicle) builds a solver
\* for it on the same track; the mass is doubled once
ConstructHeavier ==
    /\ pc = "done"
    /\ solve_log.iterations >= 1
    /\ ~hist_lighter.known
    /\ hist_lighter' =
          [known |-> TRUE, max_iterations |-> max_iterations,
           tolerance |-> tolerance, lap_time |-> lap_time_,
           cornering_limited |->
               \A i \in 1..Len(points_) :
                   v_optimal_[i] = v_corner_[i] /\ v_corner_[i] < 100 * VS]
    /\ vehicle' = [vehicle EXCEPT !.mass.mass = 2 * @]
    /\ vehicle_call' = [op |-> "QuasiSteadyStateSolver"]
                       @@ ConstructSolver(preprocessed_, vehicle')
    /\ ggv' = [ggv EXCEPT !.solver = GGVConstructed]
    /\ pc' = "idle"
    /\ max_iterations' = 0
    /\ tolerance' = [sec |-> 0, msec |-> 0]
    /\ iter' = 0
    /\ prev_lap_time' = [sec |-> 0, msec |-> 0]
    /\ v_corner_' = [i \in 1..Len(points_) |-> 0]
    /\ v_accel_' = [i \in 1..Len(points_) |-> 0]
    /\ v_brake_' = [i \in 1..Len(points_) |-> 0]
    /\ v_optimal_' = [i \in 1..Len(points_) |-> 0]
    /\ lap_time_' = 0
    /\ converged_' = FALSE
    /\ iterations_used_' = 0
    /\ solver_call' = NoCall
    /\ solve_log' = NoSolve
    /\ UNCHANGED <<trackVars, tireVars, ggv_call>>

NextMass ==
    \/ SolveStart
    \/ Iterate
    \/ SolveReturn
    \/ ConstructHeavier

SpecMass == InitMass /\ [][NextMass]_vars

-----------------------------------------------------------------------------
(* Specification of solveCorneringVelocity on single curvatures *)

\* the curvatures (1e-6 1/m) the cornering limit is computed for: -0.01 to
\* 0.01 1/m in steps of 0.0005
CorneringKappa == { k * 500 : k \in -20..20 }

InitCornering ==
    /\ TrackInit
    /\ vehicle \in MassVehicles
    /\ vehicle_call = NoCall
    /\ tire_call = NoCall
    /\ GGVInit
    /\ SolverAbsent

\* solveCorneringVelocity(kappa), as calculateCorneringLimit calls it for the
\* curvature of a track point
SolveCorneringVelocityCall ==
    /\ \E kappa \in CorneringKappa :
          vehicle_call' = [op |-> "solveCorneringVelocity", kappa |-> kappa,
                           result |-> solveCorneringVelocity(vehicle, kappa)]
    /\ UNCHANGED vehicle
    /\ UNCHANGED <<trackVars, tireVars, ggvVars, solverVars>>

NextCornering == SolveCorneringVelocityCall

SpecCornering == InitCornering /\ [][NextCornering]_vars

\* C30 (as stated): for a fixed valid vehicle, the cornering-limit speed is
\* non-increasing in curvature magnitude: for any kappa1, kappa2 with
\* |kappa1| <= |kappa2|, solveCorneringVelocity(kappa1) >=
\* solveCorneringVelocity(kappa2), across the three branches (|kappa| < 0.002
\* returns 110, non-positive denominator returns 100, otherwise
\* sqrt(mu*m*g / (m*|kappa| - aero term))).  Checked under SpecCornering on two
\* successive calls.
C30_Original ==
    [][ ( /\ vehicle_call.op = "solveCorneringVelocity"
          /\ vehicle_call'.op = "solveCorneringVelocity"
          /\ validate(vehicle)
          /\ Abs(vehicle_call.kappa) <= Abs(vehicle_call'.kappa) )
        => vehicle_call.result >= vehicle_call'.result ]_vars

-----------------------------------------------------------------------------
(* Properties of the lap time under a doubled mass, checked under SpecMass *)

\* solve() has returned on the solver of the doubled mass, called with the
\* arguments of the solve() for the original mass, after at least one iteration
BothSolved ==
    /\ pc = "done"
    /\ hist_lighter.known
    /\ solve_log.iterations >= 1
    /\ max_iterations = hist_lighter.max_iterations
    /\ tolerance = hist_lighter.tolerance

-----------------------------------------------------------------------------
(* Properties of QuasiSteadyStateSolver and GGVGenerator, checked under SpecSolver *)

\* at least one pass of the loop of the current or last solve() has completed
IterationDone == pc \in {"loop", "done"} /\ solve_log.iterations >= 1

\* C1: after every outer iteration of solve(), for every track index i,
\* v_optimal[i] <= v_corner[i], v_optimal[i] <= v_accel[i] and
\* v_optimal[i] <= v_brake[i], and v_optimal[i] is one of the three (it is
\* exactly their minimum).
C1_OptimalIsMinimum ==
    IterationDone =>
        \A i \in 1..Len(points_) :
            /\ v_optimal_[i] <= v_corner_[i]
            /\ v_optimal_[i] <= v_accel_[i]
            /\ v_optimal_[i] <= v_brake_[i]
            /\ v_optimal_[i] \in {v_corner_[i], v_accel_[i], v_brake_[i]}

\* solve() has returned after two iterations with a point where braking alone
\* sets the optimum and a point where the cornering limit does
C1_Witness ==
    /\ pc = "done"
    /\ solve_log.iterations >= 2
    /\ \E i \in 1..Len(points_) :
          v_brake_[i] < v_accel_[i] /\ v_brake_[i] < v_corner_[i]
    /\ \E i \in 1..Len(points_) : v_optimal_[i] = v_corner_[i]

\* the lap time before iteration j + 1 of the last solve(): T_0 = 1e9, then T_j
LapTimeAfter(j) == IF j = 0 THEN T0 ELSE TimeOf(solve_log.lap_times[j])

\* |T_j - T_{j-1}| < tolerance
WithinTolerance(j) ==
    TimeLess(TimeAbsDiff(LapTimeAfter(j), LapTimeAfter(j - 1)), tolerance)

\* C2 (as stated): solve(max_iterations, tolerance) returns after at most
\* max_iterations iterations, having stopped at the first iteration k with
\* |T_k - T_{k-1}| < tolerance (T_0 = 1e9); on return converged is true iff it
\* stopped that way, and then iterations_used = k; otherwise converged is
\* false and iterations_used = max_iterations.
C2_Original ==
    pc = "done" =>
        LET k == solve_log.iterations
        IN  /\ k <= max_iterations
            /\ \A j \in 1..(k - 1) : ~WithinTolerance(j)
            /\ (k >= 1 /\ WithinTolerance(k)) \/ k = max_iterations
            /\ converged_ <=> (k >= 1 /\ WithinTolerance(k))
            /\ converged_ => iterations_used_ = k
            /\ ~converged_ => iterations_used_ = max_iterations

\* the sum over all N points of ds[i] / v_optimal[i], in ms
RECURSIVE SumAllSegments(_)
SumAllSegments(i) ==
    IF i = 0 THEN 0
    ELSE (points_[i].ds * 1000) \div v_optimal_[i] + SumAllSegments(i - 1)

\* C3 (as stated): for every preprocessed track and every vehicle validate()
\* accepts, after each outer iteration every v_optimal[i] is strictly
\* positive, and the lap time is the sum over all N segments of
\* ds[i] / v_optimal[i].
C3_Original ==
    IterationDone =>
        /\ \A i \in 1..Len(points_) : v_optimal_[i] > 0
        /\ lap_time_ = SumAllSegments(Len(points_))

\* C6: getMaxAcceleration and getMaxBraking fail if and only if generate() has
\* not been called on that generator; solve() generates the GGV before the
\* first query of any pass, so no solve() ends with that error.
C6_GGVNotGenerated ==
    /\ ggv_call.op \in {"getMaxAcceleration", "getMaxBraking"}
          => (ggv_call.outcome = "throw" <=> ~ggv.user.hist_generated)
    /\ pc = "loop" => ggv.solver.hist_generated
    /\ pc # "failed"
    /\ solve_log.stopped # "exception"

\* a query on the caller's generator succeeded after generate(), and a solve()
\* ran its passes to the end
C6_Witness ==
    /\ ggv_call.op = "getMaxBraking"
    /\ ggv_call.outcome = "ok"
    /\ ggv_call.value < 0
    /\ pc = "done"
    /\ solve_log.iterations >= 1

\* C14 (as stated): running the solver again after a solve that converged
\* converges in at most 1 additional iteration and returns the same lap time
\* within tolerance.
C14_Original ==
    (pc = "done" /\ solve_log.rerun.is) =>
        /\ converged_
        /\ iterations_used_ <= 1
        /\ TimeLess(TimeAbsDiff(TimeOf(lap_time_), TimeOf(solve_log.rerun.lap_time)),
                    tolerance)

\* C14 (amended): solve() called again with the same arguments after a solve
\* that converged starts again from the initial profiles: it converges after
\* the same number of iterations as the solve before, not after at most one,
\* and returns the same lap time.
C14_RerunRepeatsSolve ==
    (pc = "done" /\ solve_log.rerun.is) =>
        /\ converged_
        /\ iterations_used_ = solve_log.rerun.iterations
        /\ solve_log.iterations = solve_log.rerun.iterations
        /\ lap_time_ = solve_log.rerun.lap_time

\* a second solve() with the default tolerance has returned after a first one
\* that converged in its second iteration
C14_Witness ==
    /\ pc = "done"
    /\ solve_log.rerun.is
    /\ solve_log.rerun.iterations = 2
    /\ solve_log.iterations = 2
    /\ tolerance = [sec |-> 0, msec |-> 1]

\* C16 (as stated): getDetailedResult() returns exactly one SimulationState per
\* track point in track order, with n = 0, s = s[i] and v = v_optimal[i];
\* timestamp[0] = 0, timestamp[i] is the sum over j < i of ds[j]/v_optimal[j]
\* (hence non-decreasing in i), and timestamp[N-1] + ds[N-1]/v_optimal[N-1]
\* equals the lap time stored in the result.  A quotient by v_optimal[j] = 0
\* is no finite time.
C16_Original ==
    (solver_call.op = "getDetailedResult" /\ iterations_used_ >= 1) =>
        LET states == solver_call.result.states
            N      == Len(points_)
        IN  /\ Len(states) = N
            /\ \A i \in 1..N :
                  /\ states[i].n = 0
                  /\ states[i].s = points_[i].s
                  /\ states[i].v = v_optimal_[i]
            /\ states[1].timestamp = 0
            /\ \A i \in 1..(N - 1) :
                  /\ v_optimal_[i] > 0
                  /\ states[i + 1].timestamp
                        = states[i].timestamp + (points_[i].ds * 1000) \div v_optimal_[i]
                  /\ states[i].timestamp <= states[i + 1].timestamp
            /\ v_optimal_[N] > 0
            /\ states[N].timestamp + (points_[N].ds * 1000) \div v_optimal_[N]
                  = solver_call.result.lap_time

\* the step is a pass of the loop of solve() that ran to its end
PassStep == solve_log'.iterations = solve_log.iterations + 1

\* C23 (as stated): the forward pass monotonically lowers v_accel and the
\* backward pass monotonically lowers v_brake: for every index i and every
\* outer iteration (the first one included, relative to the initialised
\* arrays), v_accel[i] after forwardIntegration is <= v_accel[i] before it,
\* and v_brake[i] after backwardIntegration is <= v_brake[i] before it.
C23_Original ==
    [][ PassStep => \A i \in 1..Len(points_) :
                        /\ v_accel_'[i] <= v_accel_[i]
                        /\ v_brake_'[i] <= v_brake_[i] ]_vars

\* the in-sweep rule of the forward pass on the segment that leaves point i at
\* the speed v: the start speed floored at 1 m/s, the acceleration capped at
\* 50 m/s^2, the end speed from v_e^2 = v_s^2 + 2 * ax * ds[i]
SweepForward(v, i) ==
    LET v_start == Max(v, VS)
        ay      == LateralAcceleration(v_start, points_[i].kappa)
        ax_max  == Min(getMaxAcceleration(vehicle, ggv.solver, v_start, ay).value,
                       50 * AS)
    IN  SqrtIfPositive(v_start * v_start + 2 * ax_max * points_[i].ds, v_start)

\* the in-sweep rule of the backward pass on the segment of length ds[i_prev]
\* that arrives at point i at the speed v: floor 1 m/s, braking capped at -60
SweepBackward(v, i, i_prev) ==
    LET v_start == Max(v, VS)
        ay      == LateralAcceleration(v_start, points_[i].kappa)
        ax_min  == Max(getMaxBraking(vehicle, ggv.solver, v_start, ay).value,
                       -60 * AS)
    IN  SqrtIfPositive(v_start * v_start - 2 * ax_min * points_[i_prev].ds, v_start)

\* C24 (as stated): the loop-closure step of the forward pass produces the
\* same v_accel[0] as applying the in-sweep rule (start speed floored at
\* 1 m/s, acceleration capped at 50, end speed from
\* v_e^2 = v_s^2 + 2*ax*ds[N-1]) to the segment from point N-1 to point 0 and
\* then taking min(v_accel[0], v_0, v_corner[0]); analogously the backward
\* closure produces the same v_brake[N-1] as the in-sweep backward rule (floor
\* 1 m/s, braking capped at -60) applied from point 0 to point N-1 followed by
\* the min.
C24_Original ==
    [][ PassStep =>
          LET N       == Len(points_)
              accel   == ForwardLoop(vehicle, ggv.solver, points_, v_corner_,
                                     v_accel_, 1)
              brake   == BackwardLoop(vehicle, ggv.solver, points_, v_corner_,
                                      v_brake_, N)
          IN  /\ v_accel_'[1]
                    = Min(accel[1], Min(SweepForward(accel[N], N), v_corner_[1]))
              /\ v_brake_'[N]
                    = Min(brake[N], Min(SweepBackward(brake[1], 1, N), v_corner_[N]))
      ]_vars

\* every point of the track has the same curvature magnitude
UniformCurvature ==
    \A i \in 1..Len(points_) : Abs(points_[i].kappa) = Abs(points_[1].kappa)

\* C25 (as stated): on a track whose points all have the same curvature
\* magnitude, with resulting cornering limit v_c <= 50 m/s, every outer
\* iteration yields v_optimal[i] = v_c for every i, the lap time equals
\* L / v_c, and solve() with max_iterations >= 2 and any tolerance > 0 reports
\* converged at iteration 2.  (The lap time is a sum of N divisions rounded
\* down to the millisecond, so it is compared within N ms.)
C25_Original ==
    (UniformCurvature /\ IterationDone /\ v_corner_[1] <= initial_speed) =>
        /\ \A i \in 1..Len(points_) : v_optimal_[i] = v_corner_[1]
        /\ Abs(lap_time_ - (total_length_ * 1000) \div v_corner_[1]) <= Len(points_)
        /\ (pc = "done" /\ max_iterations >= 2 /\ TimeLess(TimeOf(0), tolerance))
              => converged_ /\ iterations_used_ = 2

\* the anchor entries are at most min(50, v_corner) and so are the ends of
\* v_optimal at most 50 m/s
AnchorBound ==
    LET N == Len(points_)
    IN  /\ v_accel_[1] <= Min(initial_speed, v_corner_[1])
        /\ v_brake_[N] <= Min(initial_speed, v_corner_[N])
        /\ v_optimal_[1] <= initial_speed
        /\ v_optimal_[N] <= initial_speed

\* C26: throughout solve(), the anchor entries never rise:
\* v_accel[0] <= min(50, v_corner[0]) and v_brake[N-1] <= min(50, v_corner[N-1])
\* hold after initialisation and after every iteration, and each of the two is
\* non-increasing from one iteration to the next; hence in every result
\* v_optimal[0] <= 50 m/s and v_optimal[N-1] <= 50 m/s whatever the track and
\* vehicle.
C26_AnchorsNeverRise ==
    /\ []AnchorBound
    /\ [][ PassStep => /\ v_accel_'[1] <= v_accel_[1]
                       /\ v_brake_'[Len(points_)] <= v_brake_[Len(points_)] ]_vars

\* after two passes on a track where the swept entries exceed 50 m/s, an
\* anchor entry lies below the value it was initialised to
C26_Witness ==
    /\ IterationDone
    /\ solve_log.iterations >= 2
    /\ \E i \in 1..Len(points_) : v_accel_[i] > initial_speed
    /\ \/ v_accel_[1] < Min(initial_speed, v_corner_[1])
       \/ v_brake_[Len(points_)] < Min(initial_speed, v_corner_[Len(points_)])

\* C27: if in some outer iteration k the forward loop closure leaves
\* v_accel[0] unchanged and the backward loop closure leaves v_brake[N-1]
\* unchanged, then iteration k+1 recomputes exactly the same v_accel, v_brake,
\* v_optimal and lap time as iteration k, so for any tolerance > 0 solve()
\* reports converged no later than iteration k+1 (provided
\* k+1 <= max_iterations).
C27_FixedAnchorsRepeat ==
    [][ (PassStep /\ solve_log.iterations >= 1 /\ solve_log.anchors_kept) =>
            /\ v_accel_' = v_accel_
            /\ v_brake_' = v_brake_
            /\ v_optimal_' = v_optimal_
            /\ lap_time_' = lap_time_
            /\ TimeLess(TimeOf(0), tolerance)
                  => /\ converged_'
                     /\ iterations_used_' = solve_log.iterations + 1 ]_vars

\* two passes under the tolerance 0 with both anchors still at their initial
\* values, so that the first pass kept them; the second pass repeated the lap
\* time of the first, on a track where the sweep carries an entry above 50 m/s
C27_Witness ==
    /\ pc = "loop"
    /\ solve_log.iterations = 2
    /\ solve_log.anchors_kept
    /\ v_accel_[1] = Min(initial_speed, v_corner_[1])
    /\ v_brake_[Len(points_)] = Min(initial_speed, v_corner_[Len(points_)])
    /\ solve_log.lap_times[1] = solve_log.lap_times[2]
    /\ \E i \in 2..Len(points_) : v_accel_[i] > Min(initial_speed, v_corner_[i])

\* C29 (as stated): each call of solve(max_iterations, tolerance) on the same
\* solver recomputes its result from the track and vehicle alone: the lap
\* time, converged flag, iterations_used and v_optimal observed after the call
\* are the same whatever earlier solve() calls (with whatever arguments) were
\* made on that solver, for every max_iterations value including 0.  After a
\* call that made no pass they are those of a newly constructed solver, after
\* a call that made passes those of its own last pass.
C29_Original ==
    (pc = "done" /\ solve_log.stopped # "none") =>
        IF solve_log.iterations = 0
        THEN /\ lap_time_ = 0
             /\ ~converged_
             /\ iterations_used_ = 0
             /\ v_optimal_ = [i \in 1..Len(points_) |-> 0]
        ELSE /\ lap_time_ = solve_log.lap_times[solve_log.iterations]
             /\ converged_ = (solve_log.stopped = "tolerance")
             /\ iterations_used_ = solve_log.iterations
             /\ v_optimal_ = combineProfiles(v_corner_, v_accel_, v_brake_)
             /\ v_corner_ = calculateCorneringLimit(vehicle, points_)
             /\ solve_log.rerun.is => /\ lap_time_ = solve_log.rerun.lap_time
                                      /\ iterations_used_ = solve_log.rerun.iterations

-----------------------------------------------------------------------------
(* Properties of TrackData, checked under Spec *)

TrackQueries == {"interpolateAt", "getCurvatureAt", "isWithinBounds"}

SamePlace(p, q) == p.x = q.x /\ p.y = q.y /\ p.z = q.z

RECURSIVE SumDs(_, _)
SumDs(pts, i) == IF i = 0 THEN 0 ELSE pts[i].ds + SumDs(pts, i - 1)

\* C4: preprocess() on a track of fewer than 3 points fails with an error and
\* leaves the points, the total length and the preprocessed flag (false) as
\* they were before the call.
C4_PreprocessFewPointsFails ==
    [][ (track_call'.op = "preprocess" /\ Len(points_) < 3)
        => /\ track_call'.outcome = "throw"
           /\ points_' = points_
           /\ total_length_' = total_length_
           /\ preprocessed_' = preprocessed_
           /\ preprocessed_' = FALSE ]_vars

C4_Witness ==
    /\ track_call.op = "preprocess"
    /\ track_call.outcome = "throw"
    /\ Len(points_) = 2

\* C5: in any sequence of addPoint and preprocess calls, interpolateAt,
\* getCurvatureAt and isWithinBounds fail with an error exactly when no
\* preprocess has succeeded yet or a point was added after the last successful
\* preprocess.
C5_QueriesFailIffNotPreprocessed ==
    track_call.op \in TrackQueries
        => (track_call.outcome = "throw" <=> ~hist_current)

\* a query fails on a track that was preprocessed before a point was added
C5_Witness ==
    /\ track_call.op = "isWithinBounds"
    /\ track_call.outcome = "throw"
    /\ total_length_ > 0
    /\ Len(points_) >= 4

\* C8 (as stated): after preprocess() succeeds the arc length is strictly
\* increasing, s[i] < s[i+1] for every i, and s[N-1] + ds[N-1] = L.
C8_Original ==
    preprocessed_ =>
        /\ \A i \in 1..(Len(points_) - 1) : points_[i].s < points_[i+1].s
        /\ points_[Len(points_)].s + points_[Len(points_)].ds = total_length_

\* C8 (amended): after preprocess() succeeds the arc length is non-decreasing,
\* s[i] <= s[i+1], it increases strictly between two consecutive points that
\* are not at the same place and stays equal between two that are, and
\* s[N-1] + ds[N-1] = L.
C8_ArcLengthMonotone ==
    preprocessed_ =>
        /\ \A i \in 1..(Len(points_) - 1) :
              /\ points_[i].s <= points_[i+1].s
              /\ (points_[i].s = points_[i+1].s
                    <=> SamePlace(points_[i], points_[i+1]))
        /\ points_[Len(points_)].s + points_[Len(points_)].ds = total_length_

\* a preprocessed track with two consecutive points at the same place and two
\* consecutive points at different places
C8_Witness ==
    /\ preprocessed_
    /\ \E i \in 1..(Len(points_) - 1) : SamePlace(points_[i], points_[i+1])
    /\ \E i \in 1..(Len(points_) - 1) : points_[i].s < points_[i+1].s

\* C9: whenever the track is preprocessed, s[0] = 0, s[i+1] = s[i] + ds[i],
\* every ds[i] >= 0, and L is the sum of all N segment lengths, the last of
\* which is the wrap segment from point N-1 back to point 0.
C9_ArcLengthSums ==
    preprocessed_ =>
        LET n == Len(points_)
        IN  /\ points_[1].s = 0
            /\ \A i \in 1..(n - 1) : points_[i+1].s = points_[i].s + points_[i].ds
            /\ \A i \in 1..n : points_[i].ds >= 0
            /\ total_length_ = SumDs(points_, n)
            /\ (points_[n].ds = 0 <=> SamePlace(points_[n], points_[1]))

\* a preprocessed track of four points with a wrap segment of positive length
C9_Witness ==
    /\ preprocessed_
    /\ Len(points_) = 4
    /\ points_[4].ds > 0
    /\ points_[3].s > points_[2].s
    /\ total_length_ > points_[4].s

\* the last call was interpolateAt or getCurvatureAt and it returned
InterpolationDone ==
    /\ track_call.op \in {"interpolateAt", "getCurvatureAt"}
    /\ track_call.outcome = "ok"

C28_PreprocessedMeansCurrent ==
    preprocessed_ =>
        /\ Len(points_) >= 3
        /\ hist_current
        /\ points_ = PreprocessedPoints(points_)
        /\ total_length_ = TotalLengthOf(calculateArcLength(points_))

\* a preprocessed track of four points, the last with a computed arc length,
\* heading and curvature
C28_Witness ==
    /\ preprocessed_
    /\ track_call.op = "preprocess"
    /\ Len(points_) = 4
    /\ points_[4].s > points_[3].s
    /\ points_[4].psi # 0
    /\ points_[4].kappa # 0

-----------------------------------------------------------------------------
(* Properties of VehicleParams::validate, checked under SpecVehicle *)

\* the violations the interface section lists
ListedViolation(v) ==
    \/ v.mass.mass <= 0
    \/ v.aero.frontal_area <= 0
    \/ v.aero.air_density <= 0
    \/ v.tire.tire_radius <= 0
    \/ v.powertrain.drivetrain_efficiency <= 0
    \/ v.brake.max_brake_force <= 0
    \/ Len(v.powertrain.engine_torque_curve) = 0
    \/ Len(v.powertrain.gear_ratios) = 0
    \/ v.brake.brake_bias < 0 \/ v.brake.brake_bias > 100
    \/ v.mass.weight_distribution < 0 \/ v.mass.weight_distribution > 100

\* the other rules validate() checks
OtherViolation(v) ==
    \/ v.mass.cog_height < 0
    \/ v.mass.wheelbase <= 0
    \/ v.tire.mu_x <= 0
    \/ v.tire.mu_y <= 0
    \/ v.tire.load_sensitivity < 0 \/ v.tire.load_sensitivity > 100
    \/ v.powertrain.final_drive_ratio <= 0
    \/ v.powertrain.drivetrain_efficiency > 100

\* C7: validate() returns false, and solver construction and vehicle parsing
\* fail, for every vehicle with a non-positive mass, frontal area, air density,
\* tire radius, drivetrain efficiency or max brake force, an empty torque curve
\* or gear list, or a brake bias or weight distribution outside [0, 1]; it
\* returns true when no checked rule is violated.
C7_ValidateRejects ==
    /\ vehicle_call.op = "validate" =>
          /\ ListedViolation(vehicle) => vehicle_call.result = FALSE
          /\ (~ListedViolation(vehicle) /\ ~OtherViolation(vehicle))
                => vehicle_call.result = TRUE
    /\ (vehicle_call.op = "parseVehicleJSON" /\ ListedViolation(vehicle))
          => vehicle_call.outcome = "throw"
    /\ (vehicle_call.op = "QuasiSteadyStateSolver" /\ ListedViolation(vehicle))
          => vehicle_call.outcome = "throw"

\* validate() has rejected a vehicle whose only fault is its brake force
C7_Witness ==
    /\ vehicle_call.op = "validate"
    /\ vehicle_call.result = FALSE
    /\ vehicle = [BaseVehicle EXCEPT !.brake.max_brake_force = 0]

-----------------------------------------------------------------------------
(* Properties of TireModel, checked under SpecTire *)

\* C10 (as stated): for every Fz > 0 and every Fy, with
\* Fx = getAvailableLongitudinalForce(Fz, Fy), sqrt(Fx^2 + Fy^2) is at most
\* getMaxTotalForce(Fz), up to rounding (one unit here).
C10_Original ==
    (tire_call.op = "getAvailableLongitudinalForce" /\ tire_call.Fz > 0)
        => ISqrt(tire_call.Fx * tire_call.Fx + tire_call.Fy * tire_call.Fy)
              <= tire_call.F_max + 1

\* C10 (amended): for every Fz > 0 and every Fy with |Fy| <= getMaxTotalForce(Fz),
\* sqrt(Fx^2 + Fy^2) <= getMaxTotalForce(Fz); for |Fy| > getMaxTotalForce(Fz)
\* the available force Fx is 0 and the combined force is |Fy|.
C10_EllipseWithinLimit ==
    (tire_call.op = "getAvailableLongitudinalForce" /\ tire_call.Fz > 0)
        => /\ Abs(tire_call.Fy) <= tire_call.F_max
                => tire_call.Fx * tire_call.Fx + tire_call.Fy * tire_call.Fy
                      <= tire_call.F_max * tire_call.F_max
           /\ Abs(tire_call.Fy) > tire_call.F_max => tire_call.Fx = 0
           /\ tire_call.Fx >= 0

\* a lateral force inside the limit that leaves longitudinal force available
C10_Witness ==
    /\ tire_call.op = "getAvailableLongitudinalForce"
    /\ tire_call.Fz > 0
    /\ tire_call.Fy # 0
    /\ Abs(tire_call.Fy) < tire_call.F_max
    /\ tire_call.Fx > 0

-----------------------------------------------------------------------------
(* Specification of GGVGenerator: generate and the queries on its table *)

\* vehicles validate() accepts: the base vehicle, one with a negative drag
\* coefficient, one with load-sensitive tires, one of twice the mass
GGVVehicles ==
    { BaseVehicle,
      [BaseVehicle EXCEPT !.aero.Cd = -800],
      [BaseVehicle EXCEPT !.tire.load_sensitivity = 50],
      [BaseVehicle EXCEPT !.mass.mass = 1600] }

\* the arguments of generate(): a grid whose steps divide its ranges, one whose
\* steps do not, and the ranges of initialize() with coarse steps
GGVGrids ==
    { [v_min |-> 10 * VS, v_max |-> 30 * VS, v_step |-> 10 * VS,
       ay_max |-> 20 * AS, ay_step |-> 5 * AS],
      [v_min |-> 0, v_max |-> 25 * VS, v_step |-> 10 * VS,
       ay_max |-> 25 * AS, ay_step |-> 10 * AS],
      [v_min |-> 0, v_max |-> 120 * VS, v_step |-> 40 * VS,
       ay_max |-> 50 * AS, ay_step |-> 25 * AS] }

\* the velocities (cm/s) and lateral accelerations (cm/s^2) queried: grid
\* nodes, points between them and points outside the grids
GridQueryV == { 0, 1000, 1500, 2000, 2500, 3000, 12000 }
GridQueryAy == { -2000, -1000, 0, 500, 2000, 2500, 5000 }

InitGGV ==
    /\ TrackInit
    /\ vehicle \in GGVVehicles
    /\ vehicle_call = NoCall
    /\ tire_call = NoCall
    /\ GGVInit
    /\ SolverAbsent

\* generate(v_min, v_max, v_step, ay_max, ay_step) on a generator of the vehicle
GGVGenerate ==
    /\ \E a \in GGVGrids :
          ggv' = [ggv EXCEPT !.user =
                     generate(a.v_min, a.v_max, a.v_step, a.ay_max, a.ay_step)]
    /\ ggv_call' = [op |-> "generate", outcome |-> "ok", value |-> 0,
                    v |-> 0, ay |-> 0]
    /\ UNCHANGED <<trackVars, vehicleVars, tireVars, solverVars>>

\* getMaxAcceleration(v, ay)
GGVGetMaxAcceleration ==
    /\ \E v \in GridQueryV, ay \in GridQueryAy :
          ggv_call' = [op |-> "getMaxAcceleration", v |-> v, ay |-> ay]
                      @@ getMaxAcceleration(vehicle, ggv.user, v, ay)
    /\ UNCHANGED ggv
    /\ UNCHANGED <<trackVars, vehicleVars, tireVars, solverVars>>

\* getMaxBraking(v, ay)
GGVGetMaxBraking ==
    /\ \E v \in GridQueryV, ay \in GridQueryAy :
          ggv_call' = [op |-> "getMaxBraking", v |-> v, ay |-> ay]
                      @@ getMaxBraking(vehicle, ggv.user, v, ay)
    /\ UNCHANGED ggv
    /\ UNCHANGED <<trackVars, vehicleVars, tireVars, solverVars>>

NextGGV ==
    \/ GGVGenerate
    \/ GGVGetMaxAcceleration
    \/ GGVGetMaxBraking

SpecGGV == InitGGV /\ [][NextGGV]_vars

-----------------------------------------------------------------------------
(* Properties of GGVGenerator, checked under SpecGGV *)

\* the last call was a query that returned a value
GGVQueryDone(op) == ggv_call.op = op /\ ggv_call.outcome = "ok"

\* C11 (as stated): for every vehicle accepted by validate() and every
\* generate() call, each stored GGVPoint has 0 <= ax_max_accel <= 50 and
\* -60 <= ax_max_brake <= 0 (m/s^2), and every value returned by
\* getMaxAcceleration is >= 0 and every value returned by getMaxBraking is <= 0.
C11_Original ==
    validate(vehicle) =>
        /\ \A k \in 1..Len(getPoints(vehicle, ggv.user)) :
              LET point == getPoints(vehicle, ggv.user)[k]
              IN  /\ 0 <= point.ax_max_accel /\ point.ax_max_accel <= 50 * AS
                  /\ -60 * AS <= point.ax_max_brake /\ point.ax_max_brake <= 0
        /\ GGVQueryDone("getMaxAcceleration") => ggv_call.value >= 0
        /\ GGVQueryDone("getMaxBraking") => ggv_call.value <= 0

C13_Original ==
    [][ ( /\ GGVQueryDone("getMaxAcceleration")
          /\ ggv_call'.op = "getMaxAcceleration"
          /\ ggv_call'.outcome = "ok"
          /\ ggv_call'.v = ggv_call.v
          /\ Abs(ggv_call.ay) <= Abs(ggv_call'.ay)
          /\ Abs(ggv_call'.ay) <= ggv.user.ay_max_ )
        => ggv_call'.value <= ggv_call.value ]_vars

\* ceil(a / b) for b > 0
CeilDiv(a, b) == IF a % b = 0 THEN a \div b ELSE a \div b + 1

\* C19 (as stated): generate(v_min, v_max, dv, ay_max, day) stores exactly
\* (ceil((v_max - v_min)/dv) + 1) * (ceil(ay_max/day) + 1) points in row-major
\* order, the node (i_v, i_ay) at index i_v * |ay| + i_ay, and the column
\* count the query code indexes the table with equals the number of ay nodes
\* generated per velocity row.
C19_Original ==
    ggv.user.generated_ =>
        LET g      == ggv.user
            points == getPoints(vehicle, g)
            rows   == CeilDiv(g.v_max_ - g.v_min_, g.v_step_) + 1
            cols   == CeilDiv(g.ay_max_, g.ay_step_) + 1
        IN  /\ Len(points) = rows * cols
            /\ \A i_v \in 0..(rows - 1), i_ay \in 0..(cols - 1) :
                  /\ points[i_v * cols + i_ay + 1].velocity = g.v_min_ + i_v * g.v_step_
                  /\ points[i_v * cols + i_ay + 1].ay_lateral = i_ay * g.ay_step_
            /\ SDiv(g.ay_max_ - g.ay_min_, g.ay_step_) + 1
                  = Cardinality({k \in 1..Len(points) : points[k].velocity = g.v_min_})

\* C21 (as stated): for every generate() parameter set with positive steps
\* (including ranges that are not an integer multiple of the step) and every
\* query (v, ay), after clamping v to [v_min, v_max] and |ay| to [0, ay_max]
\* the result is the bilinear interpolation of the stored values at the four
\* grid nodes (i, j), (i+1, j), (i, j+1), (i+1, j+1) surrounding the query
\* point, so it lies between the smallest and the largest of those four stored
\* values.  A node whose weight is 0 need not exist.
C21_Original ==
    (GGVQueryDone("getMaxAcceleration") \/ GGVQueryDone("getMaxBraking")) =>
        LET g      == ggv.user
            points == getPoints(vehicle, g)
            cols   == Cardinality({k \in 1..Len(points) : points[k].velocity = g.v_min_})
            rows   == Len(points) \div cols
            v      == Max(g.v_min_, Min(g.v_max_, ggv_call.v))
            ay     == Max(0, Min(g.ay_max_, Abs(ggv_call.ay)))
            i      == (v - g.v_min_) \div g.v_step_
            j      == ay \div g.ay_step_
            v_rem  == (v - g.v_min_) % g.v_step_
            ay_rem == ay % g.ay_step_
            Weighted(di, dj) == (di = 0 \/ v_rem > 0) /\ (dj = 0 \/ ay_rem > 0)
            Stored(di, dj) == i + di < rows /\ j + dj < cols
            Node(di, dj) ==
                IF ~Stored(di, dj) THEN 0
                ELSE IF ggv_call.op = "getMaxAcceleration"
                THEN points[(i + di) * cols + (j + dj) + 1].ax_max_accel
                ELSE points[(i + di) * cols + (j + dj) + 1].ax_max_brake
        IN  /\ \A di \in {0, 1}, dj \in {0, 1} : Weighted(di, dj) => Stored(di, dj)
            /\ ggv_call.value =
                  Bilinear(<<Node(0, 0), Node(1, 0), Node(0, 1), Node(1, 1)>>,
                           v_rem, g.v_step_, ay_rem, g.ay_step_)
            /\ \E di \in {0, 1}, dj \in {0, 1} :
                  Weighted(di, dj) /\ Node(di, dj) <= ggv_call.value
            /\ \E di \in {0, 1}, dj \in {0, 1} :
                  Weighted(di, dj) /\ Node(di, dj) >= ggv_call.value

\* C20 (as stated): for every preprocessed track (N >= 3 points, including
\* tracks with coincident points) and every finite arc length s, positive,
\* negative or larger than L, interpolateAt(s) and getCurvatureAt(s)
\* terminate, having reduced s into [0, L) by modular reduction before
\* searching.  Checked under Spec.
C20_Original ==
    ( /\ track_call.op \in {"interpolateAt", "getCurvatureAt"}
      /\ preprocessed_
      /\ Len(points_) >= 3 )
    => /\ track_call.outcome = "ok"
       /\ track_call.op = "interpolateAt"
             => /\ track_call.value.s >= 0
                /\ track_call.value.s < total_length_
                /\ (track_call.s - track_call.value.s) % total_length_ = 0

-----------------------------------------------------------------------------
(* Specification of PowertrainModel: wheel force and gear selection *)

\* vehicles validate() accepts: the base vehicle, an idle speed of 0 rpm, a
\* redline of 20 rpm above an idle speed of 0, an idle speed above the redline
PowertrainVehicles ==
    { BaseVehicle,
      [BaseVehicle EXCEPT !.powertrain.min_rpm = 0],
      [BaseVehicle EXCEPT !.powertrain.min_rpm = 0, !.powertrain.max_rpm = 20],
      [BaseVehicle EXCEPT !.powertrain.min_rpm = 16000] }

\* the velocities (cm/s) and gears of the calls
PowertrainV == { -1000, 0, 5, 10, 1000, 2000, 4000, 6000, 9000, 12000, 14000 }
PowertrainGears == 0..6

InitPowertrain ==
    /\ TrackInit
    /\ vehicle \in PowertrainVehicles
    /\ vehicle_call = NoCall
    /\ tire_call = NoCall
    /\ GGVInit
    /\ SolverAbsent

\* getWheelForce(v, gear) on the PowertrainModel of the vehicle
GetWheelForceCall ==
    /\ \E v \in PowertrainV, gear \in PowertrainGears :
          vehicle_call' =
              [op |-> "getWheelForce", v |-> v, gear |-> gear,
               result |-> getWheelForce(vehicle.powertrain, vehicle.tire.tire_radius,
                                        v, gear)]
    /\ UNCHANGED vehicle
    /\ UNCHANGED <<trackVars, tireVars, ggvVars, solverVars>>

\* getMaxWheelForce(v)
GetMaxWheelForceCall ==
    /\ \E v \in PowertrainV :
          vehicle_call' =
              [op |-> "getMaxWheelForce", v |-> v, gear |-> 0,
               result |-> getMaxWheelForce(vehicle.powertrain,
                                           vehicle.tire.tire_radius, v)]
    /\ UNCHANGED vehicle
    /\ UNCHANGED <<trackVars, tireVars, ggvVars, solverVars>>

\* getOptimalGear(v)
GetOptimalGearCall ==
    /\ \E v \in PowertrainV :
          vehicle_call' =
              [op |-> "getOptimalGear", v |-> v, gear |-> 0,
               result |-> getOptimalGear(vehicle.powertrain,
                                         vehicle.tire.tire_radius, v)]
    /\ UNCHANGED vehicle
    /\ UNCHANGED <<trackVars, tireVars, ggvVars, solverVars>>

NextPowertrain ==
    \/ GetWheelForceCall
    \/ GetMaxWheelForceCall
    \/ GetOptimalGearCall

SpecPowertrain == InitPowertrain /\ [][NextPowertrain]_vars

-----------------------------------------------------------------------------
(* Properties of PowertrainModel, checked under SpecPowertrain *)

\* the engine rpm of the vehicle at velocity v in the valid gear g
RpmAt(v, g) == getRPM(vehicle.powertrain, vehicle.tire.tire_radius, v, g)

\* the valid gears whose rpm at v lies in [rpm_min, rpm_max]
GearsInRange(v) ==
    {g \in 1..Len(vehicle.powertrain.gear_ratios) :
        /\ RpmAt(v, g) >= vehicle.powertrain.min_rpm
        /\ RpmAt(v, g) <= vehicle.powertrain.max_rpm}

\* of these, the gears whose rpm at v is at least 0.7 * rpm_max
GearsInBand(v) ==
    {g \in GearsInRange(v) : RpmAt(v, g) * 100 >= 70 * vehicle.powertrain.max_rpm}

\* C17 (as stated): for every velocity v, getMaxWheelForce(v) equals the
\* maximum of getWheelForce(v, g) over all valid gears g, where
\* getWheelForce(v, g) is 0 whenever the gear is invalid, v <= 0, or the engine
\* rpm at (v, g) lies outside [rpm_min, rpm_max]; in particular
\* getMaxWheelForce(v) = 0 for v <= 0.
C17_Original ==
    LET pt == vehicle.powertrain
        r  == vehicle.tire.tire_radius
        v  == vehicle_call.v
    IN  /\ vehicle_call.op = "getWheelForce"
              => ( ( \/ ~isValidGear(pt, vehicle_call.gear)
                     \/ v <= 0
                     \/ vehicle_call.gear \notin GearsInRange(v) )
                   => vehicle_call.result = 0 )
        /\ vehicle_call.op = "getMaxWheelForce"
              => /\ \A g \in 1..Len(pt.gear_ratios) :
                        getWheelForce(pt, r, v, g) <= vehicle_call.result
                 /\ \E g \in 1..Len(pt.gear_ratios) :
                        getWheelForce(pt, r, v, g) = vehicle_call.result
                 /\ v <= 0 => vehicle_call.result = 0

\* the gear the scan of the claim selects at v
ScannedGear(v) ==
    IF GearsInBand(v) # {}
    THEN CHOOSE g \in GearsInBand(v) : \A h \in GearsInBand(v) : h <= g
    ELSE IF GearsInRange(v) # {}
    THEN CHOOSE g \in GearsInRange(v) : \A h \in GearsInRange(v) : g <= h
    ELSE 1

\* C18 (as stated): getOptimalGear(v) returns the highest gear whose predicted
\* rpm at v lies in [max(0.7 * rpm_max, rpm_min), rpm_max]; if no gear
\* qualifies, the lowest gear whose rpm lies in [rpm_min, rpm_max]; if none,
\* gear 1.  For every validated vehicle and every v the returned gear is a
\* valid gear number in 1..number_of_gears.
C18_Original ==
    vehicle_call.op = "getOptimalGear" =>
        /\ vehicle_call.result = ScannedGear(vehicle_call.v)
        /\ validate(vehicle)
              => vehicle_call.result \in 1..Len(vehicle.powertrain.gear_ratios)

\* C18 (amended): for v > 0.1 m/s getOptimalGear(v) returns the highest gear
\* whose rpm lies in [max(0.7 * rpm_max, rpm_min), rpm_max], else the lowest
\* gear whose rpm lies in [rpm_min, rpm_max], else gear 1; for v <= 0.1 m/s it
\* returns gear 1 without a scan.  For every validated vehicle and every v the
\* returned gear is a valid gear number.
C18_OptimalGearScan ==
    vehicle_call.op = "getOptimalGear" =>
        /\ vehicle_call.v > VS \div 10
              => vehicle_call.result = ScannedGear(vehicle_call.v)
        /\ vehicle_call.v <= VS \div 10 => vehicle_call.result = 1
        /\ validate(vehicle)
              => vehicle_call.result \in 1..Len(vehicle.powertrain.gear_ratios)

\* at 60 m/s the second and the third gear of the base vehicle are in the band
\* and the third is returned
C18_Witness ==
    /\ vehicle_call.op = "getOptimalGear"
    /\ vehicle_call.v > VS \div 10
    /\ Cardinality(GearsInBand(vehicle_call.v)) >= 2
    /\ vehicle_call.result = 3

=============================================================================
